---------------------------- MODULE Spec2Model ----------------------------
(***************************************************************************)
(* Model of the work-analytics dashboard: the field parsers and formatters *)
(* and the record normalizer process_data (src/src/data/parse.py), the     *)
(* date range of an upload, the tables the views compute from the rows of  *)
(* the selected window, the quick presets of the date selector, the KPI    *)
(* metrics, and one run of main on an upload (src/main.py, src/src/tabs).  *)
(*                                                                         *)
(* Text is a sequence of one-character strings.  A cell of an uploaded     *)
(* table is a record [kind, val]: kind "str" for text, kind "nan" for    *)
(* the float NaN pandas.read_csv puts in an empty cell.                    *)
(***************************************************************************)
EXTENDS Integers, Sequences, FiniteSets, TLC

VARIABLES
    pc,        \* position of the caller
    seconds,   \* argument of format_duration (NoValue when none)
    text,      \* the cell handed to a field parser (NoValue when none)
    result,    \* outcome of the last field-parser call
    heap,      \* Python object store: reference -> table (or Free)
    missing,   \* raw columns absent from the upload
    inferFormat, \* whether the installed pandas infers one format per column
    arg,       \* reference passed to the process_data call(s)
    ret,       \* references returned by the process_data calls, in order
    raised,    \* exception propagating to the caller ("none" if none)
    shown,     \* what the script has written to the page, in order
    window,    \* the selected date window <<start_date, end_date>>
    search_term,      \* the text typed in the raw-data search box
    view,      \* what the last rendered view computed
    trendArgs  \* arguments of calculate_trend <<current, previous>>

vars == <<pc, seconds, text, result, heap, missing, inferFormat, arg, ret, raised, shown,
          window, search_term, view, trendArgs>>

----------------------------------------------------------------------------
(* Bounds *)

MaxLen == 5          \* longest enumerated cell text
MaxSeconds == 7400   \* largest argument of format_duration
MaxRows == 2         \* most rows of an uploaded table

----------------------------------------------------------------------------
(* Text helpers *)

NoValue == [kind |-> "none", val |-> <<>>]
NaN == [kind |-> "nan", val |-> <<>>]
Str(cs) == [kind |-> "str", val |-> cs]
IsStr(v) == v.kind = "str"

Digits == {"0", "1", "2", "3", "4", "5", "6", "7", "8", "9"}

DigitVal(c) ==
    CASE c = "0" -> 0 [] c = "1" -> 1 [] c = "2" -> 2 [] c = "3" -> 3
      [] c = "4" -> 4 [] c = "5" -> 5 [] c = "6" -> 6 [] c = "7" -> 7
      [] c = "8" -> 8 [] c = "9" -> 9

DigitChar(d) ==
    CASE d = 0 -> "0" [] d = 1 -> "1" [] d = 2 -> "2" [] d = 3 -> "3"
      [] d = 4 -> "4" [] d = 5 -> "5" [] d = 6 -> "6" [] d = 7 -> "7"
      [] d = 8 -> "8" [] d = 9 -> "9"

\* int("0123") : the value of a run of decimal digits
RECURSIVE IntOf(_)
IntOf(ds) ==
    IF ds = <<>> THEN 0
    ELSE 10 * IntOf(SubSeq(ds, 1, Len(ds) - 1)) + DigitVal(ds[Len(ds)])

\* f"{n}" for a non-negative integer n
RECURSIVE DecStr(_)
DecStr(n) ==
    IF n < 10 THEN <<DigitChar(n)>>
    ELSE Append(DecStr(n \div 10), DigitChar(n % 10))

RECURSIVE Pow10(_)
Pow10(k) == IF k = 0 THEN 1 ELSE 10 * Pow10(k - 1)

\* length of the run of digits of s that starts at position i (0 if none)
RECURSIVE DigitRun(_, _)
DigitRun(s, i) ==
    IF i > Len(s) \/ s[i] \notin Digits THEN 0 ELSE 1 + DigitRun(s, i + 1)

Min(S) == CHOOSE x \in S : \A y \in S : x <= y
Max(S) == CHOOSE x \in S : \A y \in S : x >= y

\* all texts over alphabet A of length at most n
RECURSIVE TextsUpTo(_, _)
TextsUpTo(A, n) ==
    IF n = 0 THEN {<<>>}
    ELSE LET shorter == TextsUpTo(A, n - 1)
         IN  shorter \cup {Append(t, c) : t \in {u \in shorter : Len(u) = n - 1}, c \in A}


----------------------------------------------------------------------------
(* Field parsers: parse_duration, extract_rate, extract_payout *)

NoMatch == [found |-> FALSE, group |-> <<>>]

\* re.search(r"(\d+)<unit>", s): the leftmost start position at which a run
\* of digits (taken greedily, given back one digit at a time) is followed by
\* the unit letter; group 1 is that run.
re_search_unit(s, unit) ==
    LET lens(i) == {k \in 1..DigitRun(s, i) : i + k <= Len(s) /\ s[i + k] = unit}
        starts == {i \in 1..Len(s) : lens(i) # {}}
    IN  IF starts = {} THEN NoMatch
        ELSE LET i == Min(starts)
                 k == Max(lens(i))
             IN  [found |-> TRUE, group |-> SubSeq(s, i, i + k - 1)]

\* the same search with the pattern (\d)<unit>: one digit only
re_search_unit_one_digit(s, unit) ==
    LET starts == {i \in 1..Len(s) - 1 : s[i] \in Digits /\ s[i + 1] = unit}
    IN  IF starts = {} THEN NoMatch
        ELSE [found |-> TRUE, group |-> <<s[Min(starts)]>>]

Returned(v) == [raised |-> "none", value |-> v]
Raised(e) == [raised |-> e, value |-> 0]

parse_duration_one_digit(duration_str) ==
    IF duration_str = Str(<<"-">>) THEN Returned(0)
    ELSE IF ~IsStr(duration_str) THEN Raised("TypeError")
    ELSE LET s == duration_str.val
             hour_match == re_search_unit_one_digit(s, "h")
             minute_match == re_search_unit_one_digit(s, "m")
             second_match == re_search_unit_one_digit(s, "s")
             hours == IF hour_match.found THEN IntOf(hour_match.group) ELSE 0
             minutes == IF minute_match.found THEN IntOf(minute_match.group) ELSE 0
             secs == IF second_match.found THEN IntOf(second_match.group) ELSE 0
         IN  Returned(hours * 3600 + minutes * 60 + secs)

\* parse_duration(duration_str).  re.search raises TypeError when its
\* argument is not a string (the NaN of an empty cell).
parse_duration(duration_str) ==
    IF duration_str = Str(<<"-">>) THEN Returned(0)
    ELSE IF ~IsStr(duration_str) THEN Raised("TypeError")
    ELSE LET s == duration_str.val
             hour_match == re_search_unit(s, "h")
             minute_match == re_search_unit(s, "m")
             second_match == re_search_unit(s, "s")
             hours == IF hour_match.found THEN IntOf(hour_match.group) ELSE 0
             minutes == IF minute_match.found THEN IntOf(minute_match.group) ELSE 0
             secs == IF second_match.found THEN IntOf(second_match.group) ELSE 0
         IN  Returned(hours * 3600 + minutes * 60 + secs)

\* A float is kept exactly, as <<numerator, denominator>> with the
\* denominator a power of ten and no common factor ten.
RECURSIVE Norm(_, _)
Norm(num, den) ==
    IF den > 1 /\ num % 10 = 0 THEN Norm(num \div 10, den \div 10) ELSE <<num, den>>

Zero == <<0, 1>>

\* float("56.25")
FloatOf(cs) ==
    LET dot == Min({i \in 1..Len(cs) : cs[i] = "."})
        frac == SubSeq(cs, dot + 1, Len(cs))
    IN  Norm(IntOf(SubSeq(cs, 1, dot - 1)) * Pow10(Len(frac)) + IntOf(frac),
             Pow10(Len(frac)))

\* re.search(r"\$(\d+\.\d+)", s)
re_search_money(s) ==
    LET ends(i) == {e \in i + 3..Len(s) :
                       \E k \in 1..DigitRun(s, i + 1) :
                           /\ i + 1 + k <= Len(s)
                           /\ s[i + 1 + k] = "."
                           /\ DigitRun(s, i + k + 2) >= 1
                           /\ e = i + k + 1 + DigitRun(s, i + k + 2)}
        starts == {i \in 1..Len(s) : s[i] = "$" /\ ends(i) # {}}
    IN  IF starts = {} THEN NoMatch
        ELSE LET i == Min(starts)
             IN  [found |-> TRUE, group |-> SubSeq(s, i + 1, Max(ends(i)))]

\* the search with the pattern \$(\d+\.?\d*): the fraction is optional
re_search_money_optional_fraction(s) ==
    LET starts == {i \in 1..Len(s) : s[i] = "$" /\ DigitRun(s, i + 1) >= 1}
    IN  IF starts = {} THEN NoMatch
        ELSE LET i == Min(starts)
                 k == DigitRun(s, i + 1)
                 f == IF i + k + 1 <= Len(s) /\ s[i + k + 1] = "."
                      THEN DigitRun(s, i + k + 2) ELSE 0
             IN  [found |-> TRUE,
                  group |-> SubSeq(s, i + 1, i + k) \o <<".">> \o
                            (IF f = 0 THEN <<"0">> ELSE SubSeq(s, i + k + 2, i + k + 1 + f))]

extract_rate(rate_str) ==
    IF rate_str = Str(<<"-">>) THEN Returned(Zero)
    ELSE IF ~IsStr(rate_str) THEN Raised("TypeError")
    ELSE LET rate_match == re_search_money(rate_str.val)
         IN  IF rate_match.found THEN Returned(FloatOf(rate_match.group))
             ELSE Returned(Zero)

extract_payout_optional_fraction(payout_str) ==
    IF payout_str = Str(<<"-">>) THEN Returned(Zero)
    ELSE IF ~IsStr(payout_str) THEN Raised("TypeError")
    ELSE LET payout_match == re_search_money_optional_fraction(payout_str.val)
         IN  IF payout_match.found THEN Returned(FloatOf(payout_match.group))
             ELSE Returned(Zero)

extract_payout(payout_str) ==
    IF payout_str = Str(<<"-">>) THEN Returned(Zero)
    ELSE IF ~IsStr(payout_str) THEN Raised("TypeError")
    ELSE LET payout_match == re_search_money(payout_str.val)
         IN  IF payout_match.found THEN Returned(FloatOf(payout_match.group))
             ELSE Returned(Zero)

----------------------------------------------------------------------------
(* format_duration *)

Units3(hours, minutes, secs) ==
    DecStr(hours) \o <<"h", " ">> \o DecStr(minutes) \o <<"m", " ">> \o DecStr(secs) \o <<"s">>

Units2(minutes, secs) == DecStr(minutes) \o <<"m", " ">> \o DecStr(secs) \o <<"s">>

Units1(secs) == DecStr(secs) \o <<"s">>

\* minutes computed as seconds // 60, without the % 3600
format_duration_total_minutes(n) ==
    IF n = 0 THEN Str(<<"-">>)
    ELSE LET hours == n \div 3600
             minutes == n \div 60
             secs == n % 60
         IN  IF hours > 0 THEN Str(Units3(hours, minutes, secs))
             ELSE IF minutes > 0 THEN Str(Units2(minutes, secs))
             ELSE Str(Units1(secs))

\* the minutes branch taken whenever there are no hours
format_duration_always_minutes(n) ==
    IF n = 0 THEN Str(<<"-">>)
    ELSE LET hours == n \div 3600
             minutes == (n % 3600) \div 60
             secs == n % 60
         IN  IF hours > 0 THEN Str(Units3(hours, minutes, secs))
             ELSE Str(Units2(minutes, secs))

format_duration(n) ==
    IF n = 0 THEN Str(<<"-">>)
    ELSE LET hours == n \div 3600
             minutes == (n % 3600) \div 60
             secs == n % 60
         IN  IF hours > 0 THEN Str(Units3(hours, minutes, secs))
             ELSE IF minutes > 0 THEN Str(Units2(minutes, secs))
             ELSE Str(Units1(secs))

----------------------------------------------------------------------------
(* The field functions applied to one value: a caller formats a number of  *)
(* seconds and parses the text back, or hands a cell of an uploaded table  *)
(* to one of the three parsers.                                            *)

DurationAlphabet == {"1", "2", "h", "m", "s", " "}
MoneyAlphabet == {"$", "5", "0", ".", "g"}

Txt_dash == <<"-">>
Txt_1h15m == <<"1", "h", " ", "1", "5", "m">>
Txt_32m45s == <<"3", "2", "m", " ", "4", "5", "s">>
Txt_1h2m3s == <<"1", "h", " ", "2", "m", " ", "3", "s">>
Txt_3s2m1h == <<"3", "s", "2", "m", "1", "h">>
Txt_12h == <<"1", "2", "h">>
Txt_5625 == <<"$", "5", "6", ".", "2", "5">>
Txt_4500hr == <<"$", "4", "5", ".", "0", "0", "/", "h", "r">>
Txt_garbage == <<"g", "a", "r", "b", "a", "g", "e">>
Txt_dollar5 == <<"$", "5">>
Txt_two_amounts == <<"$", "5", " ", "$", "6", ".", "5", "0">>

SampleTexts ==
    {Txt_dash, Txt_1h15m, Txt_32m45s, Txt_1h2m3s, Txt_3s2m1h, Txt_12h,
     Txt_5625, Txt_4500hr, Txt_garbage, Txt_dollar5, Txt_two_amounts}

\* what a cell of the uploaded table can hold: text, or NaN for an empty cell
FieldCells ==
    {Str(t) : t \in TextsUpTo(DurationAlphabet, MaxLen) \cup
                    TextsUpTo(MoneyAlphabet, MaxLen) \cup SampleTexts}
    \cup {NaN}

NoResult == [op |-> "none", raised |-> "none", value |-> 0]
Outcome(op, r) == [op |-> op, raised |-> r.raised, value |-> r.value]

NoHeap == <<>>
NoWindow == <<>>
NoView == [name |-> "none"]
ViewIdle == window = NoWindow /\ search_term = <<>> /\ view = NoView /\ trendArgs = <<>>
TableIdle ==
    /\ heap = NoHeap /\ missing = {} /\ inferFormat = FALSE
    /\ arg = 0 /\ ret = <<>> /\ raised = "none" /\ shown = <<>>

FieldsInit ==
    /\ \/ seconds \in 0..MaxSeconds /\ text = NoValue /\ pc = "format"
       \/ seconds = -1 /\ text \in FieldCells /\ pc = "parse"
    /\ result = NoResult
    /\ TableIdle
    /\ ViewIdle

FormatDuration ==
    /\ pc = "format"
    /\ text' = format_duration(seconds)
    /\ pc' = "parse"
    /\ UNCHANGED <<seconds, result, heap, missing, inferFormat, arg, ret, raised, shown,
                 window, search_term, view, trendArgs>>

ParseDuration ==
    /\ pc = "parse"
    /\ result' = Outcome("parse_duration", parse_duration(text))
    /\ pc' = "done"
    /\ UNCHANGED <<seconds, text, heap, missing, inferFormat, arg, ret, raised, shown,
                 window, search_term, view, trendArgs>>

ExtractRate ==
    /\ pc = "parse"
    /\ seconds = -1
    /\ result' = Outcome("extract_rate", extract_rate(text))
    /\ pc' = "done"
    /\ UNCHANGED <<seconds, text, heap, missing, inferFormat, arg, ret, raised, shown,
                 window, search_term, view, trendArgs>>

ExtractPayout ==
    /\ pc = "parse"
    /\ seconds = -1
    /\ result' = Outcome("extract_payout", extract_payout(text))
    /\ pc' = "done"
    /\ UNCHANGED <<seconds, text, heap, missing, inferFormat, arg, ret, raised, shown,
                 window, search_term, view, trendArgs>>

FieldsNext == FormatDuration \/ ParseDuration \/ ExtractRate \/ ExtractPayout

SpecFields == FieldsInit /\ [][FieldsNext]_vars

----------------------------------------------------------------------------
(* Properties of the field functions (checked under SpecFields) *)

ParsedDuration == pc = "done" /\ result.op = "parse_duration"
ParsedMoney == pc = "done" /\ result.op \in {"extract_rate", "extract_payout"}

\* positions of the unit letter u in s that directly follow a digit
UnitTokens(s, u) == {p \in 2..Len(s) : s[p] = u /\ s[p - 1] \in Digits}

\* the digit run that ends right before position p
RunBefore(s, p) ==
    SubSeq(s, Min({q \in 1..p - 1 : \A r \in q..p - 1 : s[r] \in Digits}), p - 1)

\* value of the digit run before the first u token of s, 0 without a token
Component(s, u) ==
    IF UnitTokens(s, u) = {} THEN 0 ELSE IntOf(RunBefore(s, Min(UnitTokens(s, u))))

\* C1: for every duration text other than the single dash parse_duration
\* returns H*3600 + M*60 + S, with H, M, S the digit runs immediately before
\* the first h, m and s token wherever they stand in the text, 0 for a token
\* that is absent; for the single dash it returns 0.
C1_ParseDurationValue ==
    (ParsedDuration /\ IsStr(text)) =>
        /\ result.raised = "none"
        /\ result.value =
              IF text.val = Txt_dash THEN 0
              ELSE Component(text.val, "h") * 3600
                   + Component(text.val, "m") * 60
                   + Component(text.val, "s")

\* a text with all three components out of order and a two-digit run
C1_Witness ==
    \/ ParsedDuration /\ text = Str(Txt_3s2m1h) /\ result.value = 3723
    \/ ParsedDuration /\ text = Str(Txt_12h) /\ result.value = 43200

\* C2: parse_duration never fails: for every value the duration cell of an
\* uploaded row can hold it returns a number, and a value with no hour,
\* minute or second component yields 0.
C2_ParseDurationNeverFails ==
    ParsedDuration =>
        /\ result.raised = "none"
        /\ (\A u \in {"h", "m", "s"} : ~IsStr(text) \/ UnitTokens(text.val, u) = {})
               => result.value = 0

\* the part of C2 that the code keeps: no failure on text
C2_TextNeverFails == (ParsedDuration /\ IsStr(text)) => result.raised = "none"

\* does s hold, from position i on, a dollar sign, digits, a point, digits ?
DecimalAt(s, i) ==
    /\ i <= Len(s) /\ s[i] = "$"
    /\ DigitRun(s, i + 1) >= 1
    /\ i + 1 + DigitRun(s, i + 1) <= Len(s)
    /\ s[i + 1 + DigitRun(s, i + 1)] = "."
    /\ DigitRun(s, i + 2 + DigitRun(s, i + 1)) >= 1

FirstDollar(s) == Min({i \in 1..Len(s) : s[i] = "$"})

\* v = <<num, den>> is the decimal number written after the dollar sign at i
IsAmountAt(v, s, i) ==
    LET a == DigitRun(s, i + 1)
        b == DigitRun(s, i + 2 + a)
    IN  v[1] * Pow10(b) =
        v[2] * (IntOf(SubSeq(s, i + 1, i + a)) * Pow10(b)
                + IntOf(SubSeq(s, i + 2 + a, i + 1 + a + b)))

\* C3: extract_rate and extract_payout return the decimal number after the
\* first dollar sign when it is digits, a point, digits ("$56.25" gives
\* 56.25); they return 0 for the dash, for text without such a match
\* ("garbage") and for an integer-only amount ("$5"); they never raise on text.
C3_ExtractMoney ==
    (ParsedMoney /\ IsStr(text)) =>
        LET s == text.val
        IN  /\ result.raised = "none"
            /\ s = Txt_dash => result.value = Zero
            /\ (\E i \in 1..Len(s) : s[i] = "$") /\ DecimalAt(s, FirstDollar(s))
                   => IsAmountAt(result.value, s, FirstDollar(s))
            /\ (\A i \in 1..Len(s) : ~DecimalAt(s, i)) => result.value = Zero
            /\ s = Txt_5625 => result.value = <<5625, 100>>
            /\ s \in {Txt_garbage, Txt_dollar5} => result.value = Zero

C3_Witness ==
    \/ ParsedMoney /\ text = Str(Txt_5625) /\ result.value = <<5625, 100>>
    \/ ParsedMoney /\ text = Str(Txt_dollar5) /\ result.value = Zero

RoundTripDone == pc = "done" /\ seconds >= 0

\* C4: round trip: parse_duration(format_duration(n)) = n for every
\* non-negative integer n, 0 and values with a zero minute or second part
\* included.
C4_RoundTrip ==
    RoundTripDone => result.raised = "none" /\ result.value = seconds

C4_Witness ==
    RoundTripDone /\ seconds = 3600 /\ text = Str(Units3(1, 0, 0)) /\ result.value = 3600

Formatted == pc = "parse" /\ seconds >= 0

\* C5: format_duration gives the dash for 0; for n > 0 hours, minutes and
\* seconds when n >= 3600, minutes and seconds when 60 <= n < 3600, seconds
\* alone when n < 60; the first unit shown is never zero-valued.
C5_FormatDuration ==
    Formatted =>
        /\ seconds = 0 => text = Str(Txt_dash)
        /\ seconds >= 3600 =>
               text = Str(Units3(seconds \div 3600, (seconds % 3600) \div 60, seconds % 60))
        /\ (60 <= seconds /\ seconds < 3600) =>
               text = Str(Units2(seconds \div 60, seconds % 60))
        /\ (0 < seconds /\ seconds < 60) => text = Str(Units1(seconds))
        /\ text.val[1] # "0"

C5_Witness ==
    \/ Formatted /\ seconds = 59 /\ text = Str(<<"5", "9", "s">>)
    \/ Formatted /\ seconds = 3660 /\ text = Str(Units3(1, 1, 0))

----------------------------------------------------------------------------
(* Calendar arithmetic of the pandas Timestamp (proleptic Gregorian).      *)
(* A date is a triple <<year, month, day>>.                                *)

IsLeap(y) == (y % 4 = 0 /\ y % 100 # 0) \/ y % 400 = 0

DaysInMonth(y, m) ==
    IF m = 2 THEN (IF IsLeap(y) THEN 29 ELSE 28)
    ELSE IF m \in {4, 6, 9, 11} THEN 30 ELSE 31

RECURSIVE DaysBeforeMonth(_, _)
DaysBeforeMonth(y, m) ==
    IF m = 1 THEN 0 ELSE DaysBeforeMonth(y, m - 1) + DaysInMonth(y, m - 1)

DayOfYear(d) == DaysBeforeMonth(d[1], d[2]) + d[3]

\* date.toordinal(): 1 for 0001-01-01
Ordinal(d) ==
    LET y == d[1] - 1
    IN  365 * y + (y \div 4) - (y \div 100) + (y \div 400) + DayOfYear(d)

\* date.weekday(): 0 for Monday .. 6 for Sunday
Weekday(d) == (Ordinal(d) + 6) % 7

WeeksInYear(y) ==
    LET jan1 == Weekday(<<y, 1, 1>>)
    IN  IF jan1 = 3 \/ (IsLeap(y) /\ jan1 = 2) THEN 53 ELSE 52

\* Series.dt.isocalendar().week
IsoWeek(d) ==
    LET w == (DayOfYear(d) - (Weekday(d) + 1) + 10) \div 7
    IN  IF w < 1 THEN WeeksInYear(d[1] - 1)
        ELSE IF w > WeeksInYear(d[1]) THEN 1
        ELSE w

DayNames == <<"Monday", "Tuesday", "Wednesday", "Thursday", "Friday", "Saturday", "Sunday">>

MonthNames ==
    <<"January", "February", "March", "April", "May", "June", "July",
      "August", "September", "October", "November", "December">>

MonthAbbrs ==
    <<<<"J", "a", "n">>, <<"F", "e", "b">>, <<"M", "a", "r">>, <<"A", "p", "r">>, <<"M", "a", "y">>, <<"J", "u", "n">>, <<"J", "u", "l">>, <<"A", "u", "g">>, <<"S", "e", "p">>, <<"O", "c", "t">>, <<"N", "o", "v">>, <<"D", "e", "c">>>>

ValidDate(y, m, d) == m \in 1..12 /\ d >= 1 /\ d <= DaysInMonth(y, m)

----------------------------------------------------------------------------
(* Cells of a table.  Every cell is a record [kind, val] with val a tuple. *)

NaT == [kind |-> "nat", val |-> <<>>]
NA == [kind |-> "na", val |-> <<>>]
Timestamp(d) == [kind |-> "timestamp", val |-> d]
DateCell(d) == [kind |-> "date", val |-> d]
IntCell(n) == [kind |-> "int", val |-> <<n>>]
FloatCell(q) == [kind |-> "float", val |-> q]
NameCell(n) == [kind |-> "name", val |-> <<n>>]
BoolCell(b) == [kind |-> "bool", val |-> <<b>>]

IsNull(c) == c.kind \in {"nat", "na", "nan"}

----------------------------------------------------------------------------
(* pandas.to_datetime *)

\* one text under the format "%b %d, %Y": month abbreviation, day of one or
\* two digits, comma, four-digit year; the whole text must match
StrptimePrimary(cs) ==
    IF Len(cs) < 3 \/ ~(\E m \in 1..12 : MonthAbbrs[m] = SubSeq(cs, 1, 3)) THEN NaT
    ELSE LET m == CHOOSE k \in 1..12 : MonthAbbrs[k] = SubSeq(cs, 1, 3)
             run == DigitRun(cs, 5)
             k == IF run > 2 THEN 2 ELSE run
         IN  IF /\ Len(cs) = k + 10
                /\ cs[4] = " "
                /\ k >= 1
                /\ cs[5 + k] = ","
                /\ cs[6 + k] = " "
                /\ DigitRun(cs, 7 + k) = 4
                /\ ValidDate(IntOf(SubSeq(cs, 7 + k, 10 + k)), m, IntOf(SubSeq(cs, 5, 4 + k)))
             THEN Timestamp(<<IntOf(SubSeq(cs, 7 + k, 10 + k)), m, IntOf(SubSeq(cs, 5, 4 + k))>>)
             ELSE NaT

\* one text under "%Y-%m-%d"
StrptimeIso(cs) ==
    IF /\ Len(cs) = 10
       /\ DigitRun(cs, 1) = 4 /\ cs[5] = "-"
       /\ DigitRun(cs, 6) = 2 /\ cs[8] = "-"
       /\ DigitRun(cs, 9) = 2
       /\ ValidDate(IntOf(SubSeq(cs, 1, 4)), IntOf(SubSeq(cs, 6, 7)), IntOf(SubSeq(cs, 9, 10)))
    THEN Timestamp(<<IntOf(SubSeq(cs, 1, 4)), IntOf(SubSeq(cs, 6, 7)), IntOf(SubSeq(cs, 9, 10))>>)
    ELSE NaT

\* one text under "%m/%d/%Y"
StrptimeUs(cs) ==
    IF /\ Len(cs) = 10
       /\ DigitRun(cs, 1) = 2 /\ cs[3] = "/"
       /\ DigitRun(cs, 4) = 2 /\ cs[6] = "/"
       /\ DigitRun(cs, 7) = 4
       /\ ValidDate(IntOf(SubSeq(cs, 7, 10)), IntOf(SubSeq(cs, 1, 2)), IntOf(SubSeq(cs, 4, 5)))
    THEN Timestamp(<<IntOf(SubSeq(cs, 7, 10)), IntOf(SubSeq(cs, 1, 2)), IntOf(SubSeq(cs, 4, 5))>>)
    ELSE NaT

Strptime(fmt, cs) ==
    CASE fmt = "primary" -> StrptimePrimary(cs)
      [] fmt = "iso" -> StrptimeIso(cs)
      [] fmt = "us" -> StrptimeUs(cs)

GenericFormats == <<"iso", "us", "primary">>

\* the format the generic parser recognises in one text ("none" if none)
GuessFormat(cs) ==
    LET ok == {k \in 1..Len(GenericFormats) : Strptime(GenericFormats[k], cs) # NaT}
    IN  IF ok = {} THEN "none" ELSE GenericFormats[Min(ok)]

\* pd.to_datetime(column, format="%b %d, %Y", errors="coerce")
to_datetime_primary(col) ==
    [i \in 1..Len(col) |-> IF IsStr(col[i]) THEN StrptimePrimary(col[i].val) ELSE NaT]

\* pd.to_datetime(column, errors="coerce").  A pandas that infers the format
\* takes it from the first non-null element and applies it to the whole
\* column; otherwise (and when no format can be inferred) every element is
\* parsed on its own.
to_datetime_generic(col, infer) ==
    LET texts == {i \in 1..Len(col) : IsStr(col[i])}
        fmt == IF infer /\ texts # {} THEN GuessFormat(col[Min(texts)].val) ELSE "none"
        one(c) == IF ~IsStr(c) THEN NaT
                  ELSE IF fmt # "none" THEN Strptime(fmt, c.val)
                  ELSE IF GuessFormat(c.val) = "none" THEN NaT
                  ELSE Strptime(GuessFormat(c.val), c.val)
    IN  [i \in 1..Len(col) |-> one(col[i])]

----------------------------------------------------------------------------
(* Tables (pandas DataFrame): an ordered list of column names and a list   *)
(* of rows, each row a function from the column names to cells.  Tables    *)
(* live in a heap of references, as Python objects do: two names may refer *)
(* to the same table.                                                      *)

MaxCalls == 2        \* most successive process_data calls of one caller

Free == [cols |-> <<"<free>">>, rows |-> <<>>]
Refs == 1..MaxCalls + 1

HasColumn(t, c) == \E k \in 1..Len(t.cols) : t.cols[k] = c
Column(t, c) == [i \in 1..Len(t.rows) |-> t.rows[i][c]]

\* df[c] = vals with pd.concat([df, vals], axis=1): always a new column
SetColumn_concat(t, c, vals) ==
    LET rows == t.rows
        new == vals
    IN  [cols |-> Append(t.cols, c),
         rows |-> [i \in 1..Len(rows) |->
                     [k \in DOMAIN rows[i] \cup {c} |-> IF k = c THEN new[i] ELSE rows[i][k]]]]

\* df[c] = vals: replaces the column in place, or appends a new last column
SetColumn(t, c, vals) ==
    LET rows == t.rows
        new == vals
    IN  [cols |-> IF HasColumn(t, c) THEN t.cols ELSE Append(t.cols, c),
         rows |-> [i \in 1..Len(rows) |->
                     [k \in DOMAIN rows[i] \cup {c} |-> IF k = c THEN new[i] ELSE rows[i][k]]]]

NewRef(h) == Min({r \in DOMAIN h : h[r] = Free})

\* df = df : the local name keeps referring to the caller's table
df_copy_alias(h, a) == [heap |-> h, ref |-> a]

\* df = df.drop_duplicates(subset="itemID")
df_copy_drop_duplicates(h, a) ==
    LET t == h[a]
        keep == {i \in 1..Len(t.rows) :
                    ~HasColumn(t, "itemID") \/
                    \A j \in 1..i - 1 : t.rows[j]["itemID"] # t.rows[i]["itemID"]}
        RECURSIVE pick(_)
        pick(i) == IF i > Len(t.rows) THEN <<>>
                   ELSE (IF i \in keep THEN <<t.rows[i]>> ELSE <<>>) \o pick(i + 1)
    IN  [heap |-> [h EXCEPT ![NewRef(h)] = [cols |-> t.cols, rows |-> pick(1)]],
         ref |-> NewRef(h)]

\* df = df.copy(): a new table with the same columns and cells
df_copy(h, a) == [heap |-> [h EXCEPT ![NewRef(h)] = h[a]], ref |-> NewRef(h)]

----------------------------------------------------------------------------
(* process_data.  The body runs on st = [heap, ref, exc]: the heap, the    *)
(* reference held by the local name df, and the exception raised so far.   *)

Local(st) == st.heap[st.ref]
Store(st, t) == [st EXCEPT !.heap[st.ref] = t]
Raise(st, e) == [st EXCEPT !.exc = e]

\* df["workDate_dt"].isnull().any()
NeedsFallback_any(dt) == \E i \in 1..Len(dt) : IsNull(dt[i])

\* df["workDate_dt"].isnull().all()
NeedsFallback(dt) == \A i \in 1..Len(dt) : IsNull(dt[i])

\* lines 117-122
AssignWorkDateDt(st, infer) ==
    IF st.exc # "none" THEN st
    ELSE IF ~HasColumn(Local(st), "workDate") THEN Raise(st, "KeyError")
    ELSE LET col == Column(Local(st), "workDate")
             first == to_datetime_primary(col)
         IN  Store(st, SetColumn(Local(st), "workDate_dt",
                                 IF NeedsFallback(first) THEN to_datetime_generic(col, infer)
                                 ELSE first))

DurationCell(c) ==
    LET r == parse_duration(c) IN [raised |-> r.raised, value |-> IntCell(r.value)]
RateCell(c) ==
    LET r == extract_rate(c) IN [raised |-> r.raised, value |-> FloatCell(r.value)]
PayoutCell(c) ==
    LET r == extract_payout(c) IN [raised |-> r.raised, value |-> FloatCell(r.value)]

Convert(fn, c) ==
    CASE fn = "parse_duration" -> DurationCell(c)
      [] fn = "extract_rate" -> RateCell(c)
      [] fn = "extract_payout" -> PayoutCell(c)

\* the assignment of df[dst] = df[src].apply(fn): the first exception an
\* element raised leaves apply, otherwise the results become the column
AssignApplied(st, dst, out) ==
    IF \E i \in 1..Len(out) : out[i].raised # "none"
    THEN Raise(st, out[Min({i \in 1..Len(out) : out[i].raised # "none"})].raised)
    ELSE Store(st, SetColumn(Local(st), dst, [i \in 1..Len(out) |-> out[i].value]))

\* df[dst] = df[src].apply(fn)
ApplyColumn(st, src, dst, fn) ==
    IF st.exc # "none" THEN st
    ELSE IF ~HasColumn(Local(st), src) THEN Raise(st, "KeyError")
    ELSE AssignApplied(st, dst, [i \in 1..Len(Local(st).rows) |->
                                   Convert(fn, Local(st).rows[i][src])])

WeekCell(ts) == IF IsNull(ts) THEN NA ELSE IntCell(IsoWeek(ts.val))
MonthCell(ts) == IF IsNull(ts) THEN NaN ELSE NameCell(MonthNames[ts.val[2]])
DayNameCell(ts) == IF IsNull(ts) THEN NaN ELSE NameCell(DayNames[Weekday(ts.val) + 1])
DateOf(ts) == IF IsNull(ts) THEN NaT ELSE DateCell(ts.val)

\* lines 132-135
AssignCalendar(st) ==
    IF st.exc # "none" THEN st
    ELSE LET dt == Column(Local(st), "workDate_dt")
             n == Len(dt)
             t1 == SetColumn(Local(st), "week", [i \in 1..n |-> WeekCell(dt[i])])
             t2 == SetColumn(t1, "month", [i \in 1..n |-> MonthCell(dt[i])])
             t3 == SetColumn(t2, "day_of_week", [i \in 1..n |-> DayNameCell(dt[i])])
         IN  Store(st, SetColumn(t3, "date", [i \in 1..n |-> DateOf(dt[i])]))

OvertimeLabel == Str(<<"o", "v", "e", "r", "t", "i", "m", "e", "P", "a", "y">>)

\* df["is_overtime"] = df.get("payType") == "overtimePay": no KeyError
AssignOvertime_get(st) ==
    IF st.exc # "none" THEN st
    ELSE Store(st, SetColumn(Local(st), "is_overtime",
                   [i \in 1..Len(Local(st).rows) |->
                       BoolCell(HasColumn(Local(st), "payType")
                                /\ Local(st).rows[i]["payType"] = OvertimeLabel)]))

\* line 138
AssignOvertime(st) ==
    IF st.exc # "none" THEN st
    ELSE IF ~HasColumn(Local(st), "payType") THEN Raise(st, "KeyError")
    ELSE Store(st, SetColumn(Local(st), "is_overtime",
                   [i \in 1..Len(Local(st).rows) |->
                       BoolCell(Local(st).rows[i]["payType"] = OvertimeLabel)]))

\* lines 142-146: the handler reports, shows df["workDate"].head() (which
\* raises KeyError itself when that column is absent) and re-raises
ExceptClause(st) ==
    IF st.exc = "none"
    THEN [heap |-> st.heap, ref |-> st.ref, raised |-> "none", shown |-> <<>>]
    ELSE [heap |-> st.heap, ref |-> st.ref,
          raised |-> IF HasColumn(Local(st), "workDate") THEN st.exc ELSE "KeyError",
          shown |-> <<"st.error: Error in process_data", "st.write: Sample of problematic data:">>
                    \o (IF HasColumn(Local(st), "workDate")
                        THEN <<"st.write: workDate.head()">> ELSE <<>>)]

\* process_data(df) called with the table at reference a of heap h
process_data(h, a, infer) ==
    ExceptClause(
      AssignOvertime(
        AssignCalendar(
          ApplyColumn(
            ApplyColumn(
              ApplyColumn(
                AssignWorkDateDt([heap |-> df_copy(h, a).heap, ref |-> df_copy(h, a).ref,
                                  exc |-> "none"], infer),
                "duration", "duration_seconds", "parse_duration"),
              "rateApplied", "hourly_rate", "extract_rate"),
            "payout", "payout_amount", "extract_payout"))))

----------------------------------------------------------------------------
(* An upload is normalized: a caller reads a CSV file into a table and     *)
(* calls process_data on it, and may call it again on the table returned.  *)

RawColumns ==
    <<"itemID", "projectName", "workDate", "duration", "rateApplied", "payout",
      "payType", "status">>

\* the raw columns process_data reads
RequiredColumns == {"workDate", "duration", "rateApplied", "payout", "payType"}

DerivedColumns ==
    <<"workDate_dt", "duration_seconds", "hourly_rate", "payout_amount", "week",
      "month", "day_of_week", "date", "is_overtime">>

Txt_Jan01 == <<"J", "a", "n", " ", "0", "1", ",", " ", "2", "0", "2", "4">>
Txt_Dec31 == <<"D", "e", "c", " ", "3", "1", ",", " ", "2", "0", "2", "3">>
Txt_Iso == <<"2", "0", "2", "4", "-", "0", "1", "-", "0", "2">>
Txt_Us == <<"0", "1", "/", "0", "3", "/", "2", "0", "2", "4">>

\* the workDate texts of the uploaded rows
DateCells == {Str(t) : t \in {Txt_Jan01, Txt_Dec31, Txt_Iso, Txt_Us, Txt_garbage}}

PrepayTask ==
    [itemID |-> Str(<<"a", "1">>), projectName |-> Str(<<"A", "l", "p", "h", "a">>),
     duration |-> Str(<<"1", "h", " ", "3", "0", "m">>), rateApplied |-> Str(<<"$", "2", "0", ".", "0", "0", "/", "h", "r">>),
     payout |-> Str(<<"$", "3", "0", ".", "0", "0">>), payType |-> Str(<<"p", "r", "e", "p", "a", "y">>),
     status |-> Str(<<"p", "r", "o", "c", "e", "s", "s", "e", "d">>)]
OvertimeTask ==
    [itemID |-> Str(<<"a", "2">>), projectName |-> Str(<<"B", "e", "t", "a">>),
     duration |-> Str(<<"3", "0", "m">>), rateApplied |-> Str(Txt_dash),
     payout |-> Str(<<"$", "1", "5", ".", "0", "0">>), payType |-> OvertimeLabel,
     status |-> Str(<<"p", "e", "n", "d", "i", "n", "g">>)]
BlankDurationTask ==
    [itemID |-> Str(<<"a", "3">>), projectName |-> Str(<<"B", "e", "t", "a">>),
     duration |-> NaN, rateApplied |-> Str(Txt_dollar5),
     payout |-> Str(Txt_garbage), payType |-> Str(<<"p", "r", "e", "p", "a", "y">>),
     status |-> Str(<<"p", "e", "n", "d", "i", "n", "g">>)]
Payloads == {PrepayTask, OvertimeTask, BlankDurationTask}

Range(f) == {f[i] : i \in DOMAIN f}
SelectCols(cols, absent) == SelectSeq(cols, LAMBDA c : c \notin absent)

\* one raw row of a CSV file that lacks the columns in absent
RawRow(date, payload, absent) ==
    [c \in Range(RawColumns) \ absent |->
        IF c = "workDate" THEN date ELSE payload[c]]

RECURSIVE RowLists(_, _)
RowLists(R, n) ==
    IF n = 0 THEN {<<>>}
    ELSE LET shorter == RowLists(R, n - 1)
         IN  shorter \cup {Append(t, r) : t \in {u \in shorter : Len(u) = n - 1}, r \in R}

\* pd.read_csv(uploaded_file)
RawTables(absent) ==
    {[cols |-> SelectCols(RawColumns, absent), rows |-> rs] :
        rs \in RowLists({RawRow(d, p, absent) : d \in DateCells, p \in Payloads}, MaxRows)}

FieldsIdle == seconds = -1 /\ text = NoValue /\ result = NoResult

NormalizeInit ==
    /\ missing \in {{}} \cup {{c} : c \in RequiredColumns}
    /\ inferFormat \in BOOLEAN
    /\ \E t \in RawTables(missing) : heap = [r \in Refs |-> IF r = 1 THEN t ELSE Free]
    /\ arg = 1
    /\ ret = <<>>
    /\ raised = "none"
    /\ shown = <<>>
    /\ pc = "uploaded"
    /\ FieldsIdle
    /\ ViewIdle

\* df = process_data(df), on the uploaded table and then on each result
ProcessData ==
    /\ pc \in {"uploaded", "normalized"}
    /\ Len(ret) < MaxCalls
    /\ \E r \in {process_data(heap, arg, inferFormat)} :
           /\ heap' = r.heap
           /\ raised' = r.raised
           /\ shown' = shown \o r.shown
           /\ ret' = IF r.raised = "none" THEN Append(ret, r.ref) ELSE ret
           /\ arg' = IF r.raised = "none" THEN r.ref ELSE arg
           /\ pc' = IF r.raised = "none" THEN "normalized" ELSE "failed"
    /\ UNCHANGED <<seconds, text, result, missing, inferFormat,
                   window, search_term, view, trendArgs>>

NormalizeNext == ProcessData

SpecNormalize == NormalizeInit /\ [][NormalizeNext]_vars

----------------------------------------------------------------------------
(* Properties of process_data (checked under SpecNormalize) *)

\* the table passed to, and the table returned by, the k-th successful call
Given(k) == heap[IF k = 1 THEN 1 ELSE ret[k - 1]]
Got(k) == heap[ret[k]]

\* C6: process_data returns a table with exactly as many rows as the table
\* it was given, in the same order: no row is dropped or added, and duplicate
\* raw rows each produce their own normalized row.
C6_SameRows ==
    \A k \in 1..Len(ret) :
        /\ Len(Got(k).rows) = Len(Given(k).rows)
        /\ \A i \in 1..Len(Given(k).rows) :
               \A c \in DOMAIN Given(k).rows[i] \cap Range(RawColumns) :
                   Got(k).rows[i][c] = Given(k).rows[i][c]

\* two identical raw rows, both kept
C6_Witness ==
    /\ pc = "normalized" /\ Len(ret) = 1
    /\ Len(heap[1].rows) = 2 /\ heap[1].rows[1] = heap[1].rows[2]
    /\ Len(Got(1).rows) = 2
    /\ Got(1).rows[1]["itemID"] = Got(1).rows[2]["itemID"]

\* C7: process_data does not mutate the table passed by the caller: after
\* the call, whether it succeeds or raises, every table that existed before
\* has the same columns and the same cells.
C7_NoMutation ==
    [][\A r \in Refs : heap[r] # Free => heap'[r] = heap[r]]_vars

\* a call that raised after its first assignments: they are in the copy
C7_Witness ==
    /\ pc = "failed" /\ raised = "TypeError"
    /\ heap[2] # Free /\ HasColumn(heap[2], "workDate_dt")
    /\ Len(heap[1].rows) = 2 /\ heap[1].cols = RawColumns

\* C8: process_data is idempotent: for a raw table T that normalizes,
\* process_data(process_data(T)) has the rows, columns and cells of
\* process_data(T).
C8_Idempotent ==
    \A k \in 2..Len(ret) : Got(k) = Got(1)

C8_Witness ==
    /\ Len(ret) = 2 /\ Len(Got(2).rows) = 2
    /\ Got(2).cols = RawColumns \o DerivedColumns
    /\ Got(2).rows[1]["workDate_dt"] = Timestamp(<<2023, 12, 31>>)

PrimaryParse(c) == IF IsStr(c) THEN StrptimePrimary(c.val) ELSE NaT
PrimaryTexts == {Str(Txt_Jan01), Str(Txt_Dec31)}

\* C9: if at least one row's workDate parses under the primary format, every
\* row's parsed date is its primary-format parse, null for the rows that fail
\* it (the generic parser is not tried); only if every row fails the primary
\* format is the whole column parsed by the generic parser.  A row with a
\* null date keeps its place and has null week, month, day of week and date.
C9_DateParsing ==
    (pc = "normalized" /\ Len(ret) = 1) =>
        LET given == heap[1].rows
            got == Got(1).rows
            n == Len(given)
            somePrimary == \E i \in 1..n : PrimaryParse(given[i]["workDate"]) # NaT
        IN  /\ somePrimary =>
                   \A i \in 1..n :
                       /\ got[i]["workDate_dt"] = PrimaryParse(given[i]["workDate"])
                       /\ given[i]["workDate"] \notin PrimaryTexts
                              => got[i]["workDate_dt"] = NaT
                       /\ given[i]["workDate"] = Str(Txt_Jan01)
                              => got[i]["workDate_dt"] = Timestamp(<<2024, 1, 1>>)
            /\ ~somePrimary =>
                   /\ Column(Got(1), "workDate_dt")
                          = to_datetime_generic(Column(heap[1], "workDate"), inferFormat)
                   /\ (n >= 1 /\ given[1]["workDate"] = Str(Txt_Iso))
                          => got[1]["workDate_dt"] = Timestamp(<<2024, 1, 2>>)
            /\ \A i \in 1..n :
                   got[i]["workDate_dt"] = NaT =>
                       /\ got[i]["itemID"] = given[i]["itemID"]
                       /\ got[i]["week"] = NA
                       /\ got[i]["month"] = NaN
                       /\ got[i]["day_of_week"] = NaN
                       /\ got[i]["date"] = NaT

\* a primary-format row next to an ISO row, which is left null
C9_Witness ==
    /\ pc = "normalized" /\ Len(ret) = 1 /\ Len(heap[1].rows) = 2
    /\ heap[1].rows[1]["workDate"] = Str(Txt_Jan01)
    /\ heap[1].rows[2]["workDate"] = Str(Txt_Iso)
    /\ Got(1).rows[1]["week"] = IntCell(1)
    /\ Got(1).rows[2]["workDate_dt"] = NaT
    /\ Got(1).rows[2]["week"] = NA

\* C10: when any of the raw columns workDate, duration, rateApplied, payout
\* or payType is absent from the upload, process_data raises and returns no
\* table, whichever column is missing; nothing partially normalized reaches
\* the caller.
C10_MissingColumnRaises ==
    (missing # {} /\ pc # "uploaded") =>
        /\ pc = "failed"
        /\ raised # "none"
        /\ ret = <<>>
        /\ \A c \in Range(DerivedColumns) : ~HasColumn(heap[1], c)

C10_Witness ==
    /\ pc = "failed" /\ missing = {"payType"} /\ raised = "KeyError"
    /\ Len(heap[1].rows) = 2 /\ ret = <<>>

----------------------------------------------------------------------------
(* get_date_range (src/src/data/parse.py 76-80)                            *)

\* pd.to_datetime(column): the generic parser with errors="raise", which
\* raises where errors="coerce" would have produced NaT for a text
RaiseOnUnparsed(col, dt) ==
    IF \E i \in 1..Len(col) : IsStr(col[i]) /\ dt[i] = NaT
    THEN Raised("ValueError")
    ELSE Returned(dt)

to_datetime_raise(col, infer) == RaiseOnUnparsed(col, to_datetime_generic(col, infer))

\* Series.min() and Series.max() of a datetime column: nulls are skipped,
\* NaT when nothing is left
NonNullDates(dt) == {dt[i].val : i \in {j \in 1..Len(dt) : ~IsNull(dt[j])}}
EarliestOf(D) == CHOOSE d \in D : \A e \in D : Ordinal(d) <= Ordinal(e)
LatestOf(D) == CHOOSE d \in D : \A e \in D : Ordinal(d) >= Ordinal(e)
SeriesMin(dt) == IF NonNullDates(dt) = {} THEN NaT ELSE Timestamp(EarliestOf(NonNullDates(dt)))
SeriesMax(dt) == IF NonNullDates(dt) = {} THEN NaT ELSE Timestamp(LatestOf(NonNullDates(dt)))

\* df["workDate"].min(), df["workDate"].max() of the parsed column p
MinMax(p) ==
    IF p.raised # "none" THEN p
    ELSE Returned(<<SeriesMin(p.value), SeriesMax(p.value)>>)

\* the function reads the raw workDate text again, not workDate_dt
get_date_range(t, infer) ==
    IF ~HasColumn(t, "workDate") THEN Raised("KeyError")
    ELSE MinMax(to_datetime_raise(Column(t, "workDate"), infer))

----------------------------------------------------------------------------
(* SpecDateRange: an upload is normalized (src/main.py 93-96) and its date *)
(* range is asked for (src/main.py 115).  Date cells are the sample texts  *)
(* and the NaN of an empty cell; the table may have no rows.               *)

RangeDateCells == DateCells \cup {NaN}

RangeTables ==
    {[cols |-> RawColumns, rows |-> rs] :
        rs \in RowLists({RawRow(d, PrepayTask, {}) : d \in RangeDateCells}, MaxRows)}

\* the heap that holds the uploaded table t
Uploaded(t) == [r \in Refs |-> IF r = 1 THEN t ELSE Free]

DateRangeInit ==
    /\ missing = {}
    /\ inferFormat \in BOOLEAN
    /\ \E t \in RangeTables : heap = Uploaded(t)
    /\ arg = 1
    /\ ret = <<>>
    /\ raised = "none"
    /\ shown = <<>>
    /\ pc = "uploaded"
    /\ FieldsIdle
    /\ ViewIdle

\* df = process_data(df), once in a run of the script
NormalizeUpload == pc = "uploaded" /\ ProcessData

\* min_date, max_date = get_date_range(df)
GetDateRange ==
    /\ pc = "normalized"
    /\ \E r \in {get_date_range(heap[arg], inferFormat)} :
           view' = [name |-> "get_date_range", raised |-> r.raised, value |-> r.value]
    /\ pc' = "ranged"
    /\ UNCHANGED <<seconds, text, result, heap, missing, inferFormat, arg, ret, raised,
                   shown, window, search_term, trendArgs>>

DateRangeNext == NormalizeUpload \/ GetDateRange

SpecDateRange == DateRangeInit /\ [][DateRangeNext]_vars

\* the non-null parsed work dates of the table the call was given
ParsedWorkDates == NonNullDates(Column(heap[arg], "workDate_dt"))

\* C11: whenever the normalized table has at least one non-null parsed work
\* date, get_date_range returns the pair (earliest, latest) of those dates,
\* also when other rows of the table have a null date.
C11_DateRangeIsMinMax ==
    (pc = "ranged" /\ ParsedWorkDates # {}) =>
        /\ view.raised = "none"
        /\ view.value = <<Timestamp(EarliestOf(ParsedWorkDates)),
                          Timestamp(LatestOf(ParsedWorkDates))>>

\* C12: whenever the normalized table has no rows, or no row with a non-null
\* parsed work date, get_date_range raises instead of returning a pair.
C12_DateRangeFailsWithoutDates ==
    (pc = "ranged" /\ ParsedWorkDates = {}) => view.raised # "none"

----------------------------------------------------------------------------
(* Characters: the printable ASCII characters (less the double quote, the  *)
(* backslash and the backquote) in code-point order, for the ordering of   *)
(* texts (sorted group keys) and for case folding.  CodePoint is the       *)
(* position of a character in that order.                                  *)

Ascii ==
    <<" ", "!", "#", "$", "%", "&", "'", "(", ")", "*", "+",
      ",", "-", ".", "/", "0", "1", "2", "3", "4", "5", "6", "7",
      "8", "9", ":", ";", "<", "=", ">", "?", "@", "A", "B", "C",
      "D", "E", "F", "G", "H", "I", "J", "K", "L", "M", "N", "O",
      "P", "Q", "R", "S", "T", "U", "V", "W", "X", "Y", "Z", "[",
      "]", "^", "_", "a", "b", "c", "d", "e", "f", "g",
      "h", "i", "j", "k", "l", "m", "n", "o", "p", "q", "r", "s",
      "t", "u", "v", "w", "x", "y", "z", "{", "|", "}", "~">>

CodePoint == [c \in Range(Ascii) |-> CHOOSE k \in 1..Len(Ascii) : Ascii[k] = c]

\* str.lower() of one character
Lower == [c \in Range(Ascii) |->
            IF CodePoint[c] >= CodePoint["A"] /\ CodePoint[c] <= CodePoint["Z"]
            THEN Ascii[CodePoint[c] - CodePoint["A"] + CodePoint["a"]]
            ELSE c]
LowerText(cs) == [i \in 1..Len(cs) |-> Lower[cs[i]]]

\* a < b for two texts, as Python compares str
RECURSIVE TextLess(_, _)
TextLess(a, b) ==
    IF b = <<>> THEN FALSE
    ELSE IF a = <<>> THEN TRUE
    ELSE IF a[1] # b[1] THEN CodePoint[a[1]] < CodePoint[b[1]]
    ELSE TextLess(Tail(a), Tail(b))

\* the characters of the day and month names

NameText ==
    "Monday" :> <<"M", "o", "n", "d", "a", "y">> @@
    "Tuesday" :> <<"T", "u", "e", "s", "d", "a", "y">> @@
    "Wednesday" :> <<"W", "e", "d", "n", "e", "s", "d", "a", "y">> @@
    "Thursday" :> <<"T", "h", "u", "r", "s", "d", "a", "y">> @@
    "Friday" :> <<"F", "r", "i", "d", "a", "y">> @@
    "Saturday" :> <<"S", "a", "t", "u", "r", "d", "a", "y">> @@
    "Sunday" :> <<"S", "u", "n", "d", "a", "y">> @@
    "January" :> <<"J", "a", "n", "u", "a", "r", "y">> @@
    "February" :> <<"F", "e", "b", "r", "u", "a", "r", "y">> @@
    "March" :> <<"M", "a", "r", "c", "h">> @@
    "April" :> <<"A", "p", "r", "i", "l">> @@
    "May" :> <<"M", "a", "y">> @@
    "June" :> <<"J", "u", "n", "e">> @@
    "July" :> <<"J", "u", "l", "y">> @@
    "August" :> <<"A", "u", "g", "u", "s", "t">> @@
    "September" :> <<"S", "e", "p", "t", "e", "m", "b", "e", "r">> @@
    "October" :> <<"O", "c", "t", "o", "b", "e", "r">> @@
    "November" :> <<"N", "o", "v", "e", "m", "b", "e", "r">> @@
    "December" :> <<"D", "e", "c", "e", "m", "b", "e", "r">>

----------------------------------------------------------------------------
(* Arithmetic of the views.  A float is an exact fraction <<num, den>> in  *)
(* lowest terms, den > 0; a float division by zero gives inf or NaN as     *)
(* pandas does.                                                            *)

RECURSIVE Gcd(_, _)
Gcd(a, b) == IF b = 0 THEN a ELSE Gcd(b, a % b)
Abs(n) == IF n < 0 THEN -n ELSE n
Frac(n, d) ==
    LET g == Gcd(Abs(n), Abs(d))
        s == IF d < 0 THEN -1 ELSE 1
    IN  <<(s * n) \div g, (s * d) \div g>>
NumOf(c) == Frac(c.val[1], IF c.kind = "int" THEN 1 ELSE c.val[2])
AddQ(a, b) == Frac(a[1] * b[2] + b[1] * a[2], a[2] * b[2])
LessQ(a, b) == a[1] * b[2] < b[1] * a[2]
Inf == [kind |-> "inf", val |-> <<>>]

\* Series / Series and Series / number, element by element
TrueDiv(a, b) ==
    IF a.kind # "float" \/ b.kind # "float" THEN NaN
    ELSE IF b.val[1] = 0 THEN (IF a.val[1] = 0 THEN NaN ELSE Inf)
    ELSE FloatCell(Frac(a.val[1] * b.val[2], a.val[2] * b.val[1]))

SecondsPerHour == 3600
Hours(c) == TrueDiv(c, FloatCell(<<SecondsPerHour, 1>>))

RECURSIVE SumQ(_)
SumQ(qs) == IF qs = <<>> THEN Zero ELSE AddQ(qs[1], SumQ(Tail(qs)))

----------------------------------------------------------------------------
(* Data-frame operations of the views.  A summary table is a list of rows, *)
(* each a function from column names to cells.                             *)

NextDay(d) ==
    IF d[3] < DaysInMonth(d[1], d[2]) THEN <<d[1], d[2], d[3] + 1>>
    ELSE IF d[2] < 12 THEN <<d[1], d[2] + 1, 1>>
    ELSE <<d[1] + 1, 1, 1>>

\* pd.date_range(start=start_date, end=end_date), then .dt.date
RECURSIVE date_range(_, _)
date_range(start, end) ==
    IF Ordinal(start) > Ordinal(end) THEN <<>>
    ELSE <<start>> \o date_range(NextDay(start), end)

\* the same comparison with the end date left out
InWindow_exclusive(r, w) ==
    /\ ~IsNull(r["workDate_dt"])
    /\ Ordinal(r["workDate_dt"].val) >= Ordinal(w[1])
    /\ Ordinal(r["workDate_dt"].val) < Ordinal(w[2])

\* df[(df["workDate_dt"].dt.date >= start_date) & (df["workDate_dt"].dt.date <= end_date)]
\* (a comparison with NaT is False)
InWindow(r, w) ==
    /\ ~IsNull(r["workDate_dt"])
    /\ Ordinal(r["workDate_dt"].val) >= Ordinal(w[1])
    /\ Ordinal(r["workDate_dt"].val) <= Ordinal(w[2])
FilterWindow(t, w) == [t EXCEPT !.rows = SelectSeq(t.rows, LAMBDA r : InWindow(r, w))]

RECURSIVE SortDates(_)
SortDates(D) ==
    IF D = {} THEN <<>>
    ELSE <<EarliestOf(D)>> \o SortDates(D \ {EarliestOf(D)})

\* the keys of groupby("date"): the distinct non-null dates, ascending
DateKeys(rows) == SortDates(NonNullDates([i \in 1..Len(rows) |-> rows[i]["date"]]))
RowsOn(rows, d) == SelectSeq(rows, LAMBDA r : r["date"] = DateCell(d))

\* .agg({c: "sum"}) of one group
ColumnSum_last(rows, c) == FloatCell(NumOf(rows[Len(rows)][c]))
ColumnSum(rows, c) == FloatCell(SumQ([i \in 1..Len(rows) |-> NumOf(rows[i][c])]))
\* .agg({c: "nunique"}) of one group
ColumnNunique(rows, c) ==
    FloatCell(<<Cardinality({rows[i][c] : i \in {j \in 1..Len(rows) : ~IsNull(rows[j][c])}}), 1>>)

\* a merge in which no day finds its row
MergeLeftFill_unmatched(days, daily, cols) ==
    [k \in 1..Len(days) |->
        [c \in cols |-> IF c = "date" THEN DateCell(days[k]) ELSE FloatCell(Zero)]]

\* pd.merge(date_df, daily, on="date", how="left") followed by fillna(0):
\* every day of date_df with each matching row of daily, or with zeros
RECURSIVE MergeLeftFill(_, _, _)
MergeLeftFill(days, daily, cols) ==
    IF days = <<>> THEN <<>>
    ELSE LET hits == SelectSeq(daily, LAMBDA g : g["date"] = DateCell(days[1]))
             blank == [c \in cols |-> IF c = "date" THEN DateCell(days[1]) ELSE FloatCell(Zero)]
         IN  (IF hits = <<>> THEN <<blank>> ELSE hits) \o MergeLeftFill(Tail(days), daily, cols)

----------------------------------------------------------------------------
(* The gap-filled daily tables                                             *)

RollingWindow == 7

\* the sum of the same days divided by the length of the window
RollingMean_full(cells, i) ==
    FloatCell(Frac(SumQ([k \in 1..(i - (IF i > RollingWindow THEN i - RollingWindow + 1 ELSE 1) + 1) |->
                            cells[(IF i > RollingWindow THEN i - RollingWindow + 1 ELSE 1) + k - 1].val])[1],
                   SumQ([k \in 1..(i - (IF i > RollingWindow THEN i - RollingWindow + 1 ELSE 1) + 1) |->
                            cells[(IF i > RollingWindow THEN i - RollingWindow + 1 ELSE 1) + k - 1].val])[2]
                   * RollingWindow))

\* Series.rolling(window=7, min_periods=1).mean() at position i
RollingMean(cells, i) ==
    LET from == IF i > RollingWindow THEN i - RollingWindow + 1 ELSE 1
        total == SumQ([k \in 1..(i - from + 1) |-> cells[from + k - 1].val])
    IN  FloatCell(Frac(total[1], total[2] * (i - from + 1)))

\* create_daily_data(filtered_df), src/src/tabs/overview.py 356-407
create_daily_data(rows, w) ==
    LET keys == DateKeys(rows)
        grouped == [k \in 1..Len(keys) |->
                      [date |-> DateCell(keys[k]),
                       duration_seconds |-> ColumnSum(RowsOn(rows, keys[k]), "duration_seconds"),
                       payout_amount |-> ColumnSum(RowsOn(rows, keys[k]), "payout_amount"),
                       task_count |-> ColumnNunique(RowsOn(rows, keys[k]), "itemID")]]
        merged == MergeLeftFill(date_range(w[1], w[2]), grouped,
                                {"date", "duration_seconds", "payout_amount", "task_count"})
        n == Len(merged)
        hours == [i \in 1..n |-> Hours(merged[i]["duration_seconds"])]
        rate == [i \in 1..n |->
                    IF hours[i].val[1] > 0 THEN TrueDiv(merged[i]["payout_amount"], hours[i])
                    ELSE FloatCell(Zero)]
        payout == [i \in 1..n |-> merged[i]["payout_amount"]]
    IN  [i \in 1..n |->
            merged[i] @@
            [hours |-> hours[i],
             day_of_week |-> IntCell(Weekday(merged[i]["date"].val)),
             day_name |-> NameCell(DayNames[Weekday(merged[i]["date"].val) + 1]),
             hourly_rate |-> rate[i],
             hours_7d_avg |-> IF n >= RollingWindow THEN RollingMean(hours, i) ELSE hours[i],
             earnings_7d_avg |-> IF n >= RollingWindow THEN RollingMean(payout, i) ELSE payout[i],
             rate_7d_avg |-> IF n >= RollingWindow THEN RollingMean(rate, i) ELSE rate[i]]]

\* the daily table of the overview tab, src/main.py 188-205
main_daily_data(rows, w) ==
    LET keys == DateKeys(rows)
        grouped == [k \in 1..Len(keys) |->
                      [date |-> DateCell(keys[k]),
                       duration_seconds |-> ColumnSum(RowsOn(rows, keys[k]), "duration_seconds"),
                       payout_amount |-> ColumnSum(RowsOn(rows, keys[k]), "payout_amount")]]
        merged == MergeLeftFill(date_range(w[1], w[2]), grouped,
                                {"date", "duration_seconds", "payout_amount"})
    IN  [i \in 1..Len(merged) |->
            merged[i] @@ [hours |-> Hours(merged[i]["duration_seconds"])]]

----------------------------------------------------------------------------
(* The hours view: daily hours, their statistics, hours by day of week,    *)
(* and the regular/overtime split                                          *)

RemoveAt(s, k) == [i \in 1..(Len(s) - 1) |-> IF i < k THEN s[i] ELSE s[i + 1]]

\* the gap-filled daily hours table, given the days of the window
daily_hours_table(rows, days) ==
    LET keys == DateKeys(rows)
        grouped == [k \in 1..Len(keys) |->
                      [date |-> DateCell(keys[k]),
                       duration_seconds |-> ColumnSum(RowsOn(rows, keys[k]), "duration_seconds")]]
        merged == MergeLeftFill(days, grouped, {"date", "duration_seconds"})
    IN  [i \in 1..Len(merged) |->
            merged[i] @@ [hours |-> Hours(merged[i]["duration_seconds"])]]

\* mean, max, smallest positive value and median of the hours column
RECURSIVE SortQ(_)
SortQ(qs) ==
    IF qs = <<>> THEN <<>>
    ELSE LET k == CHOOSE i \in 1..Len(qs) : \A j \in 1..Len(qs) : ~LessQ(qs[j], qs[i])
         IN  <<qs[k]>> \o SortQ(RemoveAt(qs, k))
MeanQ(qs) == Frac(SumQ(qs)[1], SumQ(qs)[2] * Len(qs))
MedianQ(qs) ==
    LET s == SortQ(qs)
        n == Len(qs)
    IN  IF n % 2 = 1 THEN s[(n + 1) \div 2] ELSE MeanQ(<<s[n \div 2], s[n \div 2 + 1]>>)
hours_statistics(daily) ==
    LET hs == [i \in 1..Len(daily) |-> daily[i]["hours"].val]
        active == SelectSeq(hs, LAMBDA h : h[1] > 0)
    IN  IF hs = <<>>
        THEN [avg_hours |-> NaN, max_hours |-> NaN, min_hours |-> FloatCell(Zero), median_hours |-> NaN]
        ELSE [avg_hours |-> FloatCell(MeanQ(hs)),
              max_hours |-> FloatCell(SortQ(hs)[Len(hs)]),
              min_hours |-> IF active = <<>> THEN FloatCell(Zero) ELSE FloatCell(SortQ(active)[1]),
              median_hours |-> FloatCell(MedianQ(hs))]

\* the keys of groupby("day_of_week"): the distinct names, sorted as text
RECURSIVE SortTexts(_)
SortTexts(S) ==
    IF S = {} THEN <<>>
    ELSE LET first == CHOOSE a \in S : \A b \in S : ~TextLess(NameText[b], NameText[a])
         IN  <<first>> \o SortTexts(S \ {first})

\* position of a day name in days_order
DayOrder(n) == CHOOSE k \in 1..Len(DayNames) : DayNames[k] = n
DayRank(r) == DayOrder(r["day_of_week"].val[1])

\* pd.Categorical(..., categories=days_order, ordered=True), then
\* sort_values("day_of_week")
SortByDayOrder_unsorted(rows) == rows
RECURSIVE SortByDayOrder(_)
SortByDayOrder(rows) ==
    IF rows = <<>> THEN <<>>
    ELSE LET k == CHOOSE i \in 1..Len(rows) :
                     \A j \in 1..Len(rows) :
                         \/ DayRank(rows[i]) < DayRank(rows[j])
                         \/ (DayRank(rows[i]) = DayRank(rows[j]) /\ i <= j)
         IN  <<rows[k]>> \o SortByDayOrder(RemoveAt(rows, k))

DayNameOf(r) == DayNames[Weekday(r["date"].val) + 1]

\* hours by day of week, from the gap-filled daily table
hours_by_day_of_week(daily) ==
    LET keys == SortTexts({DayNameOf(daily[i]) : i \in 1..Len(daily)})
        grouped == [k \in 1..Len(keys) |->
                      [day_of_week |-> NameCell(keys[k]),
                       hours |-> ColumnSum(SelectSeq(daily, LAMBDA r : DayNameOf(r) = keys[k]), "hours")]]
    IN  SortByDayOrder(grouped)

\* the column a value of is_overtime is renamed to
OvertimeColumn_swapped(flag) == IF flag THEN "Regular Hours" ELSE "Overtime Hours"
OvertimeColumn(flag) == IF flag THEN "Overtime Hours" ELSE "Regular Hours"

\* groupby(["date", "is_overtime"]) sums, hours, pivot_table(index="date",
\* columns="is_overtime", values="hours", fill_value=0); a column no row
\* gave is added as 0
overtime_pivot(rows) ==
    LET dated == SelectSeq(rows, LAMBDA r : ~IsNull(r["date"]))
        keys == DateKeys(rows)
        flags == {dated[i]["is_overtime"] : i \in 1..Len(dated)}
        group(d, f) == SelectSeq(dated, LAMBDA r : r["date"] = DateCell(d) /\ r["is_overtime"] = BoolCell(f))
        cell(d, f) == IF BoolCell(f) \notin flags \/ group(d, f) = <<>> THEN FloatCell(Zero)
                      ELSE Hours(ColumnSum(group(d, f), "duration_seconds"))
    IN  [k \in 1..Len(keys) |->
            ("date" :> DateCell(keys[k]))
            @@ (OvertimeColumn(TRUE) :> cell(keys[k], TRUE))
            @@ (OvertimeColumn(FALSE) :> cell(keys[k], FALSE))]

HoursFailed(name, e) ==
    [name |-> name, raised |-> e, daily |-> <<>>, stats |-> hours_statistics(<<>>),
     by_day |-> <<>>, overtime |-> <<>>]
HoursRendered(name, daily, rows) ==
    [name |-> name, raised |-> "none", daily |-> daily, stats |-> hours_statistics(daily),
     by_day |-> hours_by_day_of_week(daily), overtime |-> overtime_pivot(rows)]

\* the body of display_hours_analysis_tab once the range is known:
\* pd.date_range refuses NaT, and .iloc[0] of an empty column raises
\* IndexError
HoursOnRange(name, t, range) ==
    IF range.raised # "none" THEN HoursFailed(name, range.raised)
    ELSE IF IsNull(range.value[1]) \/ IsNull(range.value[2]) THEN HoursFailed(name, "ValueError")
    ELSE IF DateKeys(t.rows) = <<>> \/ date_range(range.value[1].val, range.value[2].val) = <<>>
         THEN HoursFailed(name, "IndexError")
    ELSE HoursRendered(name,
                       daily_hours_table(t.rows, date_range(range.value[1].val, range.value[2].val)),
                       t.rows)

\* display_hours_analysis_tab(df), src/src/tabs/hours_analysis.py: the window
\* is the date range of the table it is given
display_hours_analysis_tab(t, infer) ==
    HoursOnRange("display_hours_analysis_tab", t, get_date_range(t, infer))

\* the hours tab of main, src/main.py 344-519, on the selected window
main_hours_tab(rows, w) ==
    IF DateKeys(rows) = <<>> \/ date_range(w[1], w[2]) = <<>>
    THEN HoursFailed("main_hours_tab", "IndexError")
    ELSE HoursRendered("main_hours_tab", daily_hours_table(rows, date_range(w[1], w[2])), rows)

----------------------------------------------------------------------------
(* Effective rates: the hourly-rate table of the earnings view and the     *)
(* project table of the projects view                                      *)

\* the distinct values of a float column, ascending (groupby keys)
RECURSIVE SortQSet(_)
SortQSet(S) ==
    IF S = {} THEN <<>>
    ELSE LET least == CHOOSE x \in S : \A y \in S : ~LessQ(y, x)
         IN  <<least>> \o SortQSet(S \ {least})
FloatKeys(rows, c) == SortQSet({NumOf(rows[i][c]) : i \in 1..Len(rows)})

\* src/src/tabs/earnings_analysis.py 115-131
rate_earnings(rows) ==
    LET paid == SelectSeq(rows, LAMBDA r : r["hourly_rate"].kind = "float" /\ r["hourly_rate"].val[1] > 0)
        keys == FloatKeys(paid, "hourly_rate")
        group(k) == SelectSeq(paid, LAMBDA r : NumOf(r["hourly_rate"]) = keys[k])
    IN  [k \in 1..Len(keys) |->
            [hourly_rate |-> FloatCell(keys[k]),
             payout_amount |-> ColumnSum(group(k), "payout_amount"),
             duration_seconds |-> ColumnSum(group(k), "duration_seconds"),
             effective_rate |-> TrueDiv(ColumnSum(group(k), "payout_amount"),
                                        Hours(ColumnSum(group(k), "duration_seconds"))),
             hours |-> Hours(ColumnSum(group(k), "duration_seconds"))]]

RECURSIVE SortStrs(_)
SortStrs(S) ==
    IF S = {} THEN <<>>
    ELSE LET first == CHOOSE a \in S : \A b \in S : ~TextLess(b, a)
         IN  <<first>> \o SortStrs(S \ {first})

\* .agg({c: "count"}) of one group: the non-null cells
ColumnCount(rows, c) ==
    FloatCell(<<Cardinality({i \in 1..Len(rows) : ~IsNull(rows[i][c])}), 1>>)

\* src/src/tabs/projects_details.py 11-26 and src/main.py 871-886
project_summary(rows) ==
    LET named == SelectSeq(rows, LAMBDA r : IsStr(r["projectName"]))
        keys == SortStrs({named[i]["projectName"].val : i \in 1..Len(named)})
        group(k) == SelectSeq(named, LAMBDA r : r["projectName"].val = keys[k])
    IN  [k \in 1..Len(keys) |->
            [projectName |-> Str(keys[k]),
             payout_amount |-> ColumnSum(group(k), "payout_amount"),
             duration_seconds |-> ColumnSum(group(k), "duration_seconds"),
             itemID |-> ColumnCount(group(k), "itemID"),
             hours |-> Hours(ColumnSum(group(k), "duration_seconds")),
             effective_rate |-> TrueDiv(ColumnSum(group(k), "payout_amount"),
                                        Hours(ColumnSum(group(k), "duration_seconds")))]]

----------------------------------------------------------------------------
(* The raw-data view: text search and CSV download                         *)

ZeroPad(cs, width) == [i \in 1..(width - Len(cs)) |-> "0"] \o cs
RECURSIVE Log10(_)
Log10(n) == IF n < 10 THEN 0 ELSE 1 + Log10(n \div 10)

\* str(date) and the text of a midnight timestamp: YYYY-MM-DD
DateText(d) == ZeroPad(DecStr(d[1]), 4) \o <<"-">> \o ZeroPad(DecStr(d[2]), 2) \o <<"-">> \o ZeroPad(DecStr(d[3]), 2)

\* repr of a non-negative float with a finite decimal expansion: 30.0, 56.25
FloatText(q) ==
    DecStr(q[1] \div q[2]) \o <<".">> \o
    (IF q[2] = 1 THEN <<"0">> ELSE ZeroPad(DecStr(q[1] % q[2]), Log10(q[2])))

\* DataFrame.astype(str), one cell
StrOf(c) ==
    CASE c.kind = "str" -> c.val
      [] c.kind = "nan" -> <<"n", "a", "n">>
      [] c.kind = "nat" -> <<"N", "a", "T">>
      [] c.kind = "na" -> <<"<", "N", "A", ">">>
      [] c.kind \in {"timestamp", "date"} -> DateText(c.val)
      [] c.kind = "int" -> DecStr(c.val[1])
      [] c.kind = "float" -> FloatText(c.val)
      [] c.kind = "name" -> NameText[c.val[1]]
      [] c.kind = "bool" -> IF c.val[1] THEN <<"T", "r", "u", "e">> ELSE <<"F", "a", "l", "s", "e">>

\* hay contains needle as a text, letter case ignored
Contains(hay, needle) ==
    \E i \in 1..(Len(hay) - Len(needle) + 1) :
        LowerText(SubSeq(hay, i, i + Len(needle) - 1)) = LowerText(needle)

\* re.compile(term, re.IGNORECASE) for terms of ordinary characters and of
\* the special characters $ . ( + : the pattern is a list of items, each an
\* atom (one given character, any character, or the end of the text) that
\* is repeated or not.  An opening parenthesis is never closed by these
\* terms ("missing )"), and + needs an atom that can be repeated before it
\* ("nothing to repeat"; "multiple repeat" after a repeated item, which
\* Python 3.11 reads as a possessive repeat instead: no term has ++).
Item(atom, c) == [atom |-> atom, c |-> c, plus |-> FALSE]

RECURSIVE re_parse(_, _, _)
re_parse(term, i, items) ==
    IF i > Len(term) THEN Returned(items)
    ELSE IF term[i] = "(" THEN Raised("re.error")
    ELSE IF term[i] = "+"
         THEN IF items = <<>> \/ items[Len(items)].atom = "end" \/ items[Len(items)].plus
              THEN Raised("re.error")
              ELSE re_parse(term, i + 1, [items EXCEPT ![Len(items)].plus = TRUE])
    ELSE IF term[i] = "." THEN re_parse(term, i + 1, Append(items, Item("any", ".")))
    ELSE IF term[i] = "$" THEN re_parse(term, i + 1, Append(items, Item("end", "$")))
    ELSE re_parse(term, i + 1, Append(items, Item("char", term[i])))

re_compile(term) == re_parse(term, 1, <<>>)

\* the atom matches the character at position p of hay
AtomMatches(item, hay, p) ==
    /\ p <= Len(hay)
    /\ item.atom # "end"
    /\ item.atom = "char" => Lower[hay[p]] = Lower[item.c]

\* the items from the k-th on match hay from position p on
RECURSIVE re_match(_, _, _, _)
re_match(items, k, hay, p) ==
    IF k > Len(items) THEN TRUE
    ELSE IF items[k].atom = "end" THEN p = Len(hay) + 1 /\ re_match(items, k + 1, hay, p)
    ELSE IF ~items[k].plus
         THEN AtomMatches(items[k], hay, p) /\ re_match(items, k + 1, hay, p + 1)
    ELSE \E n \in 1..(Len(hay) - p + 1) :
             /\ \A j \in p..(p + n - 1) : AtomMatches(items[k], hay, j)
             /\ re_match(items, k + 1, hay, p + n)

\* regex.search(hay) is not None
re_search(items, hay) == \E p \in 1..(Len(hay) + 1) : re_match(items, 1, hay, p)

\* Series.str.contains(term, case=False) of one element: regex=True is the
\* default, so the term is a regular expression
str_contains(hay, items) == re_search(items, hay)

\* df.astype(str).apply(lambda x: x.str.contains(term, case=False)).any(axis=1)
RowMatches(r, items) == \E c \in DOMAIN r : str_contains(StrOf(r[c]), items)

\* DataFrame.to_csv(index=False): the header and one line per row, each a
\* list of fields (a null cell is an empty field)
CsvField(c) == IF IsNull(c) THEN <<>> ELSE StrOf(c)
to_csv(t) ==
    <<t.cols>> \o
    [i \in 1..Len(t.rows) |-> [k \in 1..Len(t.cols) |-> CsvField(t.rows[i][t.cols[k]])]]

\* the displayed frame of raw_data_tab(df), for a term that compiled
filtered_display_df(t, needle) ==
    IF needle # <<>>
    THEN [t EXCEPT !.rows = SelectSeq(t.rows, LAMBDA r : RowMatches(r, re_compile(needle).value))]
    ELSE t

NoFrame == [cols |-> <<>>, rows |-> <<>>]

\* raw_data_tab(df), src/src/tabs/raw_data.py 4-30 (src/main.py 1085-1111 is
\* the same code on filtered_df): the download is made from df.  The term
\* is compiled before any element is searched, so a term that is not a
\* regular expression raises re.error whatever the rows are.
raw_data_tab(t, needle) ==
    IF needle # <<>> /\ re_compile(needle).raised # "none"
    THEN [name |-> "raw_data_tab", raised |-> "re.error", shown |-> NoFrame, csv |-> <<>>]
    ELSE [name |-> "raw_data_tab", raised |-> "none",
          shown |-> filtered_display_df(t, needle),
          csv |-> to_csv(t)]

----------------------------------------------------------------------------
(* The task timeline of the projects view: the one place where a view      *)
(* assigns a column, on a copy of the table it is given                    *)

\* df[c] = p for a parsed column p, unless the parse raised
AssignParsed(st, c, p) ==
    IF p.raised # "none" THEN Raise(st, p.raised)
    ELSE Store(st, SetColumn(Local(st), c, p.value))

\* what the projects view leaves: its summary, the heap and the reference
\* of the timeline table
TabOfTimeline(summary, st) ==
    [name |-> "projects_details_tab", raised |-> st.exc, summary |-> summary,
     heap |-> st.heap, timeline |-> st.ref]

\* task_timeline["completion_date"] = pd.to_datetime(task_timeline["workDate"])
AssignCompletionDate(st, infer) ==
    AssignParsed(st, "completion_date", to_datetime_raise(Column(Local(st), "workDate"), infer))

\* task_timeline = df.copy() and the assignment of its new column,
\* src/src/tabs/projects_details.py 74-75 (src/main.py 937-940 on filtered_df)
task_timeline(h, a, infer) ==
    AssignCompletionDate([heap |-> df_copy(h, a).heap, ref |-> df_copy(h, a).ref,
                          exc |-> "none"], infer)

\* projects_details_tab(df), src/src/tabs/projects_details.py 5-90
projects_details_tab(h, a, infer) ==
    TabOfTimeline(project_summary(h[a].rows), task_timeline(h, a, infer))

----------------------------------------------------------------------------
(* SpecViews: an upload has been normalized, its date range shown          *)
(* (src/main.py 115-117, which needs a non-null range) and a window        *)
(* selected (src/main.py 120-125); each view is then computed from the     *)
(* rows of the window.  The views of src/src/tabs are given the same       *)
(* filtered table.                                                         *)

ZeroDurationTask ==
    [itemID |-> Str(<<"a", "4">>), projectName |-> Str(<<"G", "a", "m", "m", "a">>),
     duration |-> Str(Txt_dash), rateApplied |-> Str(<<"$", "2", "0", ".", "0", "0", "/", "h", "r">>),
     payout |-> Str(<<"$", "3", "0", ".", "0", "0">>), payType |-> Str(<<"p", "r", "e", "p", "a", "y">>),
     status |-> Str(<<"p", "e", "n", "d", "i", "n", "g">>)]

ViewRawRows ==
    {RawRow(Str(Txt_Jan01), PrepayTask, {}), RawRow(Str(Txt_Jan01), OvertimeTask, {}),
     RawRow(Str(Txt_Dec31), PrepayTask, {}), RawRow(Str(Txt_Dec31), ZeroDurationTask, {}),
     RawRow(NaN, OvertimeTask, {})}

\* the days the two date inputs offer: Friday to Monday
WindowDays == {<<2023, 12, 29>>, <<2023, 12, 30>>, <<2023, 12, 31>>, <<2024, 1, 1>>}

SearchTerms ==
    {<<>>, <<"a", "l", "p", "h", "a">>, <<"B", "E", "T", "A">>, <<"$", "3">>, <<"$">>,
     <<".">>, <<"l", ".", "h">>, <<"0", "+">>, <<"(">>, <<"+">>, <<"$", "+">>}

ViewsInit ==
    /\ missing = {}
    /\ inferFormat \in BOOLEAN
    /\ \E rs \in RowLists(ViewRawRows, MaxRows) :
         \E r \in {process_data(Uploaded([cols |-> RawColumns, rows |-> rs]), 1, inferFormat)} :
             /\ r.raised = "none"
             /\ \E g \in {get_date_range(r.heap[r.ref], inferFormat)} :
                    g.raised = "none" /\ ~IsNull(g.value[1])
             /\ heap = r.heap
             /\ arg = r.ref
             /\ ret = <<r.ref>>
             /\ shown = r.shown
    /\ raised = "none"
    /\ window \in WindowDays \X WindowDays
    /\ search_term = <<>>
    /\ view = NoView
    /\ trendArgs = <<>>
    /\ pc = "filtered"
    /\ FieldsIdle

\* filtered_df, src/main.py 127-131 and src/src/tabs/overview.py 144-148
filtered_df == FilterWindow(heap[arg], window)

\* the except clause of main, src/main.py 1113-1115
MainExcept(e) ==
    IF e = "none" THEN <<>>
    ELSE <<"st.error: Error processing the file", "st.write: Please make sure">>

CreateDailyData ==
    /\ pc = "filtered"
    /\ view' = [name |-> "create_daily_data", raised |-> "none",
                daily |-> create_daily_data(filtered_df.rows, window)]
    /\ pc' = "rendered"
    /\ UNCHANGED <<seconds, text, result, heap, missing, inferFormat, arg, ret, raised,
                   shown, window, search_term, trendArgs>>

MainDailyData ==
    /\ pc = "filtered"
    /\ view' = [name |-> "main_daily_data", raised |-> "none",
                daily |-> main_daily_data(filtered_df.rows, window)]
    /\ pc' = "rendered"
    /\ UNCHANGED <<seconds, text, result, heap, missing, inferFormat, arg, ret, raised,
                   shown, window, search_term, trendArgs>>

DisplayHoursAnalysisTab ==
    /\ pc = "filtered"
    /\ view' = display_hours_analysis_tab(filtered_df, inferFormat)
    /\ pc' = "rendered"
    /\ UNCHANGED <<seconds, text, result, heap, missing, inferFormat, arg, ret, raised,
                   shown, window, search_term, trendArgs>>

MainHoursTab ==
    /\ pc = "filtered"
    /\ \E v \in {main_hours_tab(filtered_df.rows, window)} :
           /\ view' = v
           /\ shown' = shown \o MainExcept(v.raised)
    /\ pc' = "rendered"
    /\ UNCHANGED <<seconds, text, result, heap, missing, inferFormat, arg, ret, raised,
                   window, search_term, trendArgs>>

RateEarnings ==
    /\ pc = "filtered"
    /\ view' = [name |-> "rate_earnings", raised |-> "none",
                summary |-> rate_earnings(filtered_df.rows)]
    /\ pc' = "rendered"
    /\ UNCHANGED <<seconds, text, result, heap, missing, inferFormat, arg, ret, raised,
                   shown, window, search_term, trendArgs>>

ProjectSummary ==
    /\ pc = "filtered"
    /\ view' = [name |-> "project_summary", raised |-> "none",
                summary |-> project_summary(filtered_df.rows)]
    /\ pc' = "rendered"
    /\ UNCHANGED <<seconds, text, result, heap, missing, inferFormat, arg, ret, raised,
                   shown, window, search_term, trendArgs>>

\* projects_details_tab(df) on the session table
ProjectsDetailsTab ==
    /\ pc = "filtered"
    /\ \E v \in {projects_details_tab(heap, arg, inferFormat)} :
           /\ heap' = v.heap
           /\ view' = [name |-> v.name, raised |-> v.raised, summary |-> v.summary,
                       timeline |-> v.timeline]
    /\ pc' = "rendered"
    /\ UNCHANGED <<seconds, text, result, missing, inferFormat, arg, ret, raised,
                   shown, window, search_term, trendArgs>>

RawDataTab ==
    /\ pc = "filtered"
    /\ \E s \in SearchTerms :
           /\ search_term' = s
           /\ view' = raw_data_tab(filtered_df, s)
    /\ pc' = "rendered"
    /\ UNCHANGED <<seconds, text, result, heap, missing, inferFormat, arg, ret, raised,
                   shown, window, trendArgs>>

ViewsNext ==
    \/ CreateDailyData
    \/ MainDailyData
    \/ DisplayHoursAnalysisTab
    \/ MainHoursTab
    \/ RateEarnings
    \/ ProjectSummary
    \/ ProjectsDetailsTab
    \/ RawDataTab

SpecViews == ViewsInit /\ [][ViewsNext]_vars

----------------------------------------------------------------------------
(* Claims about the views *)

Rendered(names) == pc = "rendered" /\ view.name \in names
ValidWindow == Ordinal(window[1]) <= Ordinal(window[2])
WindowLength == Ordinal(window[2]) - Ordinal(window[1]) + 1

\* the table has one row for each day of the selected window, in order
OneRowPerDay(daily) ==
    /\ Len(daily) = WindowLength
    /\ \A i \in 1..Len(daily) :
           /\ daily[i]["date"].kind = "date"
           /\ Ordinal(daily[i]["date"].val) = Ordinal(window[1]) + i - 1

\* C13: for every selected window with start_date <= end_date, the daily
\* table of create_daily_data, of main's overview and of
\* display_hours_analysis_tab, when produced, has exactly
\* (end_date - start_date).days + 1 rows, one for each day of the window.
C13_OneRowPerDay ==
    (/\ Rendered({"create_daily_data", "main_daily_data", "display_hours_analysis_tab"})
     /\ ValidWindow
     /\ view.raised = "none")
        => OneRowPerDay(view.daily)

\* the two tables that are built from the selected window do have one row
\* for each of its days
C13_WindowTablesOneRowPerDay ==
    (Rendered({"create_daily_data", "main_daily_data"}) /\ ValidWindow)
        => (view.raised = "none" /\ OneRowPerDay(view.daily))

\* seconds and cents of the rows of the session table dated d, added one
\* row at a time
RECURSIVE SecondsOn(_, _)
SecondsOn(n, d) ==
    IF n = 0 THEN 0
    ELSE SecondsOn(n - 1, d) +
         (IF heap[arg].rows[n]["workDate_dt"] = Timestamp(d)
          THEN heap[arg].rows[n]["duration_seconds"].val[1] ELSE 0)
CentsOf(q) == (q[1] * 100) \div q[2]
RECURSIVE CentsOn(_, _)
CentsOn(n, d) ==
    IF n = 0 THEN 0
    ELSE CentsOn(n - 1, d) +
         (IF heap[arg].rows[n]["workDate_dt"] = Timestamp(d)
          THEN CentsOf(heap[arg].rows[n]["payout_amount"].val) ELSE 0)

\* C14: in the gap-filled daily table of create_daily_data and of main's
\* overview, each day's duration_seconds and payout_amount are the sums over
\* the rows of that day (0 for a day without rows).
C14_DailySums ==
    Rendered({"create_daily_data", "main_daily_data"}) =>
        \A i \in 1..Len(view.daily) :
            /\ view.daily[i]["duration_seconds"].kind = "float"
            /\ view.daily[i]["duration_seconds"].val
                   = <<SecondsOn(Len(heap[arg].rows), view.daily[i]["date"].val), 1>>
            /\ view.daily[i]["payout_amount"].kind = "float"
            /\ view.daily[i]["payout_amount"].val[1] * 100
                   = CentsOn(Len(heap[arg].rows), view.daily[i]["date"].val)
                       * view.daily[i]["payout_amount"].val[2]

\* a day with two rows (1h 30m and 30m, $30 and $15) next to a day with none
C14_Witness ==
    /\ Rendered({"create_daily_data"})
    /\ \E i \in 1..Len(view.daily) :
           /\ view.daily[i]["duration_seconds"] = FloatCell(<<7200, 1>>)
           /\ view.daily[i]["payout_amount"] = FloatCell(<<45, 1>>)
           /\ view.daily[i]["hours"] = FloatCell(<<2, 1>>)
    /\ \E i \in 1..Len(view.daily) :
           /\ view.daily[i]["duration_seconds"] = FloatCell(Zero)
           /\ view.daily[i]["payout_amount"] = FloatCell(Zero)

\* C15: in the per-hourly-rate table and in the per-project table, no
\* group has an infinite or NaN effective rate (a group without duration is
\* left out or has no rate).
C15_NoDivisionByZero ==
    Rendered({"rate_earnings", "project_summary"}) =>
        \A i \in 1..Len(view.summary) : view.summary[i]["effective_rate"].kind \notin {"inf", "nan"}


HoursViews == {"display_hours_analysis_tab", "main_hours_tab"}

\* C16: the hours-by-day-of-week table lists its weekdays in the order
\* Monday, Tuesday, ..., Sunday: each row's weekday comes later in the week
\* than the row before it, so none is listed twice.
C16_WeekOrder ==
    (Rendered(HoursViews) /\ view.raised = "none") =>
        /\ \A i \in 1..Len(view.by_day) :
               \E a \in 1..Len(DayNames) : view.by_day[i]["day_of_week"] = NameCell(DayNames[a])
        /\ \A i \in 1..(Len(view.by_day) - 1) :
               \E a, b \in 1..Len(DayNames) :
                   /\ a < b
                   /\ view.by_day[i]["day_of_week"] = NameCell(DayNames[a])
                   /\ view.by_day[i + 1]["day_of_week"] = NameCell(DayNames[b])

\* a window from Friday to Monday: Monday is listed first, Friday second
C16_Witness ==
    /\ Rendered({"main_hours_tab"})
    /\ view.raised = "none"
    /\ Len(view.by_day) = 4
    /\ view.by_day[1]["day_of_week"] = NameCell("Monday")
    /\ view.by_day[2]["day_of_week"] = NameCell("Friday")

\* seconds of the rows given to the view that are dated d and whose payType
\* is (overtime = TRUE) or is not (overtime = FALSE) the overtime label
RECURSIVE SplitSeconds(_, _, _)
SplitSeconds(rows, d, overtime) ==
    IF rows = <<>> THEN 0
    ELSE SplitSeconds(Tail(rows), d, overtime) +
         (IF rows[1]["workDate_dt"] = Timestamp(d) /\ ((rows[1]["payType"] = OvertimeLabel) <=> overtime)
          THEN rows[1]["duration_seconds"].val[1] ELSE 0)

IsHours(c, secs) == c.kind = "float" /\ c.val[1] * SecondsPerHour = secs * c.val[2]

\* C18: for every date of the rows given to the hours view, the
\* regular/overtime table has one row whose Overtime Hours is the summed
\* duration of that date's overtimePay rows / 3600 and whose Regular Hours
\* is the summed duration of its other rows / 3600 (0 for a side without
\* rows); a 1h 30m prepay row and a 30m overtimePay row on one day give
\* Regular 1.5 and Overtime 0.5.
C18_OvertimeSplit ==
    (Rendered(HoursViews) /\ view.raised = "none") =>
        /\ \A i \in 1..Len(filtered_df.rows) :
               \E k \in 1..Len(view.overtime) :
                   /\ view.overtime[k]["date"] = DateCell(filtered_df.rows[i]["workDate_dt"].val)
                   /\ \A j \in 1..Len(view.overtime) :
                          view.overtime[j]["date"] = view.overtime[k]["date"] => j = k
                   /\ IsHours(view.overtime[k]["Overtime Hours"],
                              SplitSeconds(filtered_df.rows, view.overtime[k]["date"].val, TRUE))
                   /\ IsHours(view.overtime[k]["Regular Hours"],
                              SplitSeconds(filtered_df.rows, view.overtime[k]["date"].val, FALSE))
        /\ ({filtered_df.rows[i]["duration"] : i \in 1..Len(filtered_df.rows)}
                = {PrepayTask.duration, OvertimeTask.duration}
            /\ Len(filtered_df.rows) = 2
            /\ filtered_df.rows[1]["workDate"] = filtered_df.rows[2]["workDate"])
           => /\ Len(view.overtime) = 1
              /\ view.overtime[1]["Regular Hours"] = FloatCell(<<3, 2>>)
              /\ view.overtime[1]["Overtime Hours"] = FloatCell(<<1, 2>>)

\* the example: a 1h 30m prepay row and a 30m overtimePay row on Jan 1
C18_Witness ==
    /\ Rendered({"display_hours_analysis_tab"})
    /\ view.raised = "none"
    /\ Len(filtered_df.rows) = 2
    /\ filtered_df.rows[1]["duration"] = PrepayTask.duration
    /\ filtered_df.rows[2]["duration"] = OvertimeTask.duration
    /\ Len(view.overtime) = 1
    /\ view.overtime[1]["Regular Hours"] = FloatCell(<<3, 2>>)
    /\ view.overtime[1]["Overtime Hours"] = FloatCell(<<1, 2>>)

\* C19: when the selected window holds no row, every view is computed
\* without raising and gives empty tables or zero sums.
C19_EmptyWindowRenders ==
    (pc = "rendered" /\ filtered_df.rows = <<>>) =>
        /\ view.raised = "none"
        /\ view.name \in {"create_daily_data", "main_daily_data"} =>
               \A i \in 1..Len(view.daily) : view.daily[i]["duration_seconds"] = FloatCell(Zero)
        /\ view.name \in {"rate_earnings", "project_summary"} => view.summary = <<>>

\* C20: the CSV offered for download is the CSV of the rows shown in the
\* raw-data view (the rows matching the search term, if there is one),
\* with the same columns.
C20_DownloadIsWhatIsShown ==
    (Rendered({"raw_data_tab"}) /\ view.raised = "none") => view.csv = to_csv(view.shown)

----------------------------------------------------------------------------
(* calculate_trend (src/src/tabs/overview.py 172-181)                      *)

MulQ(a, b) == Frac(a[1] * b[1], a[2] * b[2])
SubQ(a, b) == AddQ(a, <<-b[1], b[2]>>)

\* the same computation without the test of previous_value == 0
calculate_trend_unguarded(current_value, previous_value) ==
    LET ratio == TrueDiv(FloatCell(SubQ(current_value, previous_value)), FloatCell(previous_value))
    IN  IF ratio.kind = "float" THEN FloatCell(MulQ(ratio.val, <<100, 1>>)) ELSE ratio

calculate_trend(current_value, previous_value) ==
    IF previous_value[1] = 0
    THEN (IF current_value[1] > 0 THEN IntCell(100) ELSE IntCell(0))
    ELSE LET ratio == TrueDiv(FloatCell(SubQ(current_value, previous_value)), FloatCell(previous_value))
         IN  IF ratio.kind = "float" THEN FloatCell(MulQ(ratio.val, <<100, 1>>)) ELSE ratio

----------------------------------------------------------------------------
(* SpecTrend: calculate_trend on the totals of two periods.  A total is a  *)
(* non-negative number of half units (hours, dollars, tasks).              *)

MaxHalves == 100     \* largest total, in halves

TrendValues == {Frac(k, 2) : k \in 0..MaxHalves}

TrendInit ==
    /\ trendArgs \in TrendValues \X TrendValues
    /\ window = NoWindow
    /\ search_term = <<>>
    /\ view = NoView
    /\ pc = "trend"
    /\ FieldsIdle
    /\ TableIdle

CalculateTrend ==
    /\ pc = "trend"
    /\ view' = [name |-> "calculate_trend", raised |-> "none",
                value |-> calculate_trend(trendArgs[1], trendArgs[2])]
    /\ pc' = "trended"
    /\ UNCHANGED <<seconds, text, result, heap, missing, inferFormat, arg, ret, raised,
                   shown, window, search_term, trendArgs>>

TrendNext == CalculateTrend

SpecTrend == TrendInit /\ [][TrendNext]_vars

TrendOf(c, p) == pc = "trended" /\ trendArgs = <<<<c, 1>>, <<p, 1>>>>

\* C17: calculate_trend(current, previous) is (current - previous) /
\* previous * 100 when previous is not 0; when previous is 0 it is 100 if
\* current > 0 and 0 otherwise; calculate_trend(50, 0) = 100,
\* calculate_trend(0, 0) = 0, calculate_trend(0, 50) = -100; the result is
\* never the inf or NaN of a division by zero.
C17_Trend ==
    pc = "trended" =>
        /\ view.value.kind \in {"int", "float"}
        /\ trendArgs[2][1] # 0 =>
               NumOf(view.value)[1] * trendArgs[2][1] * trendArgs[1][2]
                   = 100 * (trendArgs[1][1] * trendArgs[2][2] - trendArgs[2][1] * trendArgs[1][2])
                         * NumOf(view.value)[2]
        /\ (trendArgs[2][1] = 0 /\ trendArgs[1][1] > 0) => NumOf(view.value) = <<100, 1>>
        /\ (trendArgs[2][1] = 0 /\ trendArgs[1][1] <= 0) => NumOf(view.value) = <<0, 1>>
        /\ TrendOf(50, 0) => NumOf(view.value) = <<100, 1>>
        /\ TrendOf(0, 0) => NumOf(view.value) = <<0, 1>>
        /\ TrendOf(0, 50) => NumOf(view.value) = <<-100, 1>>

\* the three examples are spread over three states; this is the one with a
\* previous value: calculate_trend(0, 50) = -100
C17_Witness ==
    /\ TrendOf(0, 50)
    /\ view.value = FloatCell(<<-100, 1>>)

\* calculate_trend(50, 0) = 100: the guarded branch
C17_GuardWitness ==
    /\ TrendOf(50, 0)
    /\ view.value = IntCell(100)

----------------------------------------------------------------------------
(* The search of the raw-data view *)

\* the rows of the window in which the text of some column contains the
\* term itself, letter case ignored
LiteralRows(needle) ==
    SelectSeq(filtered_df.rows, LAMBDA r : \E c \in DOMAIN r : Contains(StrOf(r[c]), needle))

SpecialCharacters == {"$", ".", "(", "+"}
IsPlainTerm(needle) == \A i \in 1..Len(needle) : needle[i] \notin SpecialCharacters

\* C21: with a non-empty search term t, the raw-data view shows exactly the
\* rows in which the string form of at least one column contains t as a
\* literal substring, ignoring letter case, for every t including terms
\* with characters such as $ . ( or +; with an empty term it shows every row.
C21_SearchIsLiteral ==
    Rendered({"raw_data_tab"}) =>
        /\ view.raised = "none"
        /\ view.shown.rows =
               IF search_term = <<>> THEN filtered_df.rows ELSE LiteralRows(search_term)

\* the search is the literal one for the empty term and for the terms
\* without special characters
C21_PlainSearchIsLiteral ==
    (Rendered({"raw_data_tab"}) /\ IsPlainTerm(search_term)) =>
        /\ view.raised = "none"
        /\ view.shown.rows =
               IF search_term = <<>> THEN filtered_df.rows ELSE LiteralRows(search_term)

\* a term with special characters that shows other rows than the literal
\* search, and one that raises
C21_RegexDiffers ==
    /\ Rendered({"raw_data_tab"})
    /\ view.raised = "none"
    /\ search_term = <<"$", "3">>
    /\ LiteralRows(search_term) # <<>>
    /\ view.shown.rows = <<>>
C21_RegexRaises ==
    Rendered({"raw_data_tab"}) /\ search_term = <<"(">> /\ view.raised = "re.error"

----------------------------------------------------------------------------
(* SpecSession: one run of main (src/main.py 86-1115) on an uploaded file. *)
(* shown is the list of what the script has rendered so far.  The tabs are *)
(* computed in the order of the script, each starting with its header; an  *)
(* exception leaves the try block for the except clause at its end.  The   *)
(* earnings, project and calendar tabs are taken to render.                *)

SessionDateCells == {Str(Txt_Jan01), Str(Txt_Dec31), Str(Txt_garbage)}
SessionMissing == {{}, {"duration"}, {"workDate"}}

\* the windows of the two date inputs: two days with rows, one day, and
\* two days before the first row
SessionWindows ==
    {<<<<2023, 12, 31>>, <<2024, 1, 1>>>>, <<<<2024, 1, 1>>, <<2024, 1, 1>>>>,
     <<<<2023, 12, 29>>, <<2023, 12, 30>>>>}

SessionTerms == {<<>>, <<"a", "l", "p", "h", "a">>, <<"(">>}

SessionTables(absent) ==
    {[cols |-> SelectCols(RawColumns, absent), rows |-> rs] :
        rs \in RowLists({RawRow(d, p, absent) : d \in SessionDateCells,
                                                p \in {PrepayTask, OvertimeTask}}, MaxRows)}

SessionInit ==
    /\ missing \in SessionMissing
    /\ inferFormat \in BOOLEAN
    /\ \E t \in SessionTables(missing) : heap = Uploaded(t)
    /\ arg = 1
    /\ ret = <<>>
    /\ raised = "none"
    /\ shown = <<>>
    /\ pc = "uploaded"
    /\ FieldsIdle
    /\ ViewIdle

\* src/main.py 92-95
SessionProcess == pc = "uploaded" /\ ProcessData

TabBar == "st.tabs"
TabHeaders ==
    [overview |-> "st.header: Work Analytics Overview",
     hours |-> "st.header: Working Hours Analysis",
     earnings |-> "st.header: Earnings Analysis",
     projects |-> "st.header: Project and Task Analysis",
     calendar |-> "st.header: Calendar View",
     raw |-> "st.header: Raw Data"]

\* the date range shown by the overview tab: NaT has no strftime
ShownDateRange(g) ==
    IF g.raised # "none" THEN g.raised
    ELSE IF IsNull(g.value[1]) \/ IsNull(g.value[2]) THEN "ValueError"
    ELSE "none"

\* src/main.py 98-342: the tab bar and the overview tab
SessionOverview ==
    /\ pc = "normalized"
    /\ \E e \in {ShownDateRange(get_date_range(heap[arg], inferFormat))} :
        IF e # "none"
        THEN /\ shown' = shown \o <<TabBar, TabHeaders.overview>>
             /\ raised' = e
             /\ pc' = "failed"
             /\ UNCHANGED <<window, view>>
        ELSE /\ \E w \in SessionWindows :
                    /\ window' = w
                    /\ view' = [name |-> "main_daily_data", raised |-> "none",
                                daily |-> main_daily_data(FilterWindow(heap[arg], w).rows, w)]
             /\ shown' = shown \o <<TabBar, TabHeaders.overview, "st.subheader: Data Range",
                                    "st.markdown: metrics", "st.plotly_chart: trends">>
             /\ raised' = "none"
             /\ pc' = "overview"
    /\ UNCHANGED <<seconds, text, result, heap, missing, inferFormat, arg, ret,
                   search_term, trendArgs>>

\* src/main.py 344-632: the hours tab
SessionHours ==
    /\ pc = "overview"
    /\ \E v \in {main_hours_tab(filtered_df.rows, window)} :
           /\ view' = v
           /\ raised' = v.raised
           /\ shown' = shown \o <<TabHeaders.hours>> \o
                       (IF v.raised = "none" THEN <<"st.plotly_chart: hours">> ELSE <<>>)
           /\ pc' = IF v.raised = "none" THEN "hours" ELSE "failed"
    /\ UNCHANGED <<seconds, text, result, heap, missing, inferFormat, arg, ret,
                   window, search_term, trendArgs>>

\* src/main.py 634-1083: the earnings, project and calendar tabs
SessionMiddleTabs ==
    /\ pc = "hours"
    /\ view' = [name |-> "project_summary", raised |-> "none",
                summary |-> project_summary(filtered_df.rows)]
    /\ shown' = shown \o <<TabHeaders.earnings, "st.plotly_chart: earnings",
                           TabHeaders.projects, "st.dataframe: projects",
                           TabHeaders.calendar, "st.write: calendar">>
    /\ pc' = "calendar"
    /\ UNCHANGED <<seconds, text, result, heap, missing, inferFormat, arg, ret, raised,
                   window, search_term, trendArgs>>

\* src/main.py 1085-1111: the raw-data tab
SessionRaw ==
    /\ pc = "calendar"
    /\ \E s \in SessionTerms :
        \E v \in {raw_data_tab(filtered_df, s)} :
           /\ search_term' = s
           /\ view' = v
           /\ raised' = v.raised
           /\ shown' = shown \o <<TabHeaders.raw>> \o
                       (IF v.raised = "none" THEN <<"st.dataframe: raw", "st.download_button">>
                        ELSE <<>>)
           /\ pc' = IF v.raised = "none" THEN "done" ELSE "failed"
    /\ UNCHANGED <<seconds, text, result, heap, missing, inferFormat, arg, ret,
                   window, trendArgs>>

\* src/main.py 1113-1115
SessionExcept ==
    /\ pc = "failed"
    /\ shown' = shown \o MainExcept(raised)
    /\ pc' = "reported"
    /\ UNCHANGED <<seconds, text, result, heap, missing, inferFormat, arg, ret, raised,
                   window, search_term, view, trendArgs>>

SessionNext ==
    \/ SessionProcess
    \/ SessionOverview
    \/ SessionHours
    \/ SessionMiddleTabs
    \/ SessionRaw
    \/ SessionExcept

SpecSession == SessionInit /\ [][SessionNext]_vars

ErrorMessages == {"st.error: Error in process_data", "st.error: Error processing the file"}
Notes == {"st.write: Sample of problematic data:", "st.write: workDate.head()",
          "st.write: Please make sure"}
ErrorsShown == Cardinality({i \in 1..Len(shown) : shown[i] \in ErrorMessages})
DashboardShown == {i \in 1..Len(shown) : shown[i] \notin ErrorMessages \cup Notes}

\* C22: when an upload fails (a missing column, or an exception raised
\* while any tab is being computed), the session shows exactly one error
\* message and no part of the dashboard: nothing of a tab is rendered before
\* the failure is reported, and the error is not reported twice.
C22_OneErrorNoDashboard ==
    pc = "reported" => ErrorsShown = 1 /\ DashboardShown = {}

\* a failure of process_data is reported twice, a failure of a tab after
\* the tabs before it were rendered
C22_ReportedTwice == pc = "reported" /\ ErrorsShown = 2 /\ DashboardShown = {}
C22_PartialDashboard == pc = "reported" /\ ErrorsShown = 1 /\ DashboardShown # {}

----------------------------------------------------------------------------
(* The date window *)

\* a <= b for two calendar dates, compared year, month, day
DateLeq(a, b) ==
    \/ a[1] < b[1]
    \/ a[1] = b[1] /\ a[2] < b[2]
    \/ a[1] = b[1] /\ a[2] = b[2] /\ a[3] <= b[3]

\* the rows of the session table dated within the window, in their order
RECURSIVE KeptRows(_, _)
KeptRows(rows, w) ==
    IF rows = <<>> THEN <<>>
    ELSE (IF /\ Head(rows)["workDate_dt"].kind = "timestamp"
             /\ DateLeq(w[1], Head(rows)["workDate_dt"].val)
             /\ DateLeq(Head(rows)["workDate_dt"].val, w[2])
          THEN <<Head(rows)>> ELSE <<>>) \o KeptRows(Tail(rows), w)

\* C23: the date-window filter keeps exactly the rows whose parsed date d
\* satisfies start_date <= d <= end_date, both bounds included; a row whose
\* parsed date is null is kept by no window, and the filter does not raise
\* because of null dates (the raw-data view without a search term shows the
\* filtered rows).
C23_WindowFilter ==
    (Rendered({"raw_data_tab"}) /\ search_term = <<>>) =>
        /\ view.raised = "none"
        /\ view.shown.rows = KeptRows(heap[arg].rows, window)
        /\ \A i \in 1..Len(view.shown.rows) : ~IsNull(view.shown.rows[i]["workDate_dt"])

\* a one-day window: the row dated that day is kept, and the row without a
\* date is not
C23_Witness ==
    /\ Rendered({"raw_data_tab"})
    /\ search_term = <<>>
    /\ window[1] = window[2]
    /\ Len(heap[arg].rows) = 2
    /\ \E i \in 1..2 : IsNull(heap[arg].rows[i]["workDate_dt"])
    /\ Len(view.shown.rows) = 1
    /\ view.shown.rows[1]["workDate_dt"] = Timestamp(window[1])

----------------------------------------------------------------------------
(* The session table under the views *)

\* C24: no view mutates the normalized table it is given: every call of a
\* view leaves the session table with the columns and cell values it had,
\* so after any sequence of calls it is as it was right after normalization.
C24_ViewsLeaveTable ==
    [][pc = "filtered" => (arg' = arg /\ heap'[arg] = heap[arg])]_vars

\* the projects view has written its new column to a copy
C24_Witness ==
    /\ Rendered({"projects_details_tab"})
    /\ view.raised = "none"
    /\ view.timeline # arg
    /\ heap[view.timeline].rows # <<>>
    /\ HasColumn(heap[view.timeline], "completion_date")
    /\ ~HasColumn(heap[arg], "completion_date")

----------------------------------------------------------------------------
(* The KPI metrics of the overview: display_enhanced_kpi_metrics            *)
(* (src/src/tabs/overview.py 219-353) and the top metrics of main           *)
(* (src/main.py 133-138)                                                    *)

PrevDay(d) ==
    IF d[3] > 1 THEN <<d[1], d[2], d[3] - 1>>
    ELSE IF d[2] > 1 THEN <<d[1], d[2] - 1, DaysInMonth(d[1], d[2] - 1)>>
    ELSE <<d[1] - 1, 12, 31>>

\* d + timedelta(days=k)
RECURSIVE DatePlus(_, _)
DatePlus(d, k) ==
    IF k = 0 THEN d
    ELSE IF k > 0 THEN DatePlus(NextDay(d), k - 1)
    ELSE DatePlus(PrevDay(d), k + 1)

\* Series.nunique(): the number of distinct non-null values
Nunique(rows, c) ==
    IntCell(Cardinality({rows[i][c] : i \in {j \in 1..Len(rows) : ~IsNull(rows[j][c])}}))

\* a / b without the test of b > 0
GuardedDiv_unguarded(a, b) == TrueDiv(a, FloatCell(NumOf(b)))

\* a / b if b > 0 else 0
GuardedDiv(a, b) ==
    IF b.val[1] > 0 THEN TrueDiv(a, FloatCell(NumOf(b))) ELSE IntCell(0)

\* the metrics of one period from its totals
MetricsOf(total_hours, total_earnings, total_tasks, active_days) ==
    [total_hours |-> total_hours,
     total_earnings |-> total_earnings,
     avg_hourly_rate |-> GuardedDiv(total_earnings, total_hours),
     total_tasks |-> total_tasks,
     active_days |-> active_days,
     avg_daily_hours |-> GuardedDiv(total_hours, active_days)]

\* src/src/tabs/overview.py 231-244 (and 270-283 for the previous period)
Metrics(rows) ==
    MetricsOf(Hours(ColumnSum(rows, "duration_seconds")), ColumnSum(rows, "payout_amount"),
              Nunique(rows, "itemID"), Nunique(rows, "workDate"))

\* src/src/tabs/overview.py 247-261: the period of the same length that
\* ends the day before start_date, moved to begin at min_date if it would
\* begin before it
ShiftedToData(prev_start_date, prev_end_date, min_date, period_length) ==
    IF Ordinal(prev_start_date) < Ordinal(min_date)
    THEN <<min_date, DatePlus(min_date, period_length - 1)>>
    ELSE <<prev_start_date, prev_end_date>>

previous_period(w, min_date) ==
    ShiftedToData(DatePlus(DatePlus(w[1], -1), -(Ordinal(w[2]) - Ordinal(w[1]))),
                  DatePlus(w[1], -1), min_date, Ordinal(w[2]) - Ordinal(w[1]) + 1)

\* calculate_trend on two metric values: not-a-number propagates through
\* the arithmetic, and infinity over a finite previous value stays infinite
TrendOfMetric(c, p) ==
    IF c.kind = "nan" \/ p.kind \in {"nan", "inf"} THEN NaN
    ELSE IF c.kind = "inf" THEN (IF NumOf(p)[1] = 0 THEN IntCell(100) ELSE Inf)
    ELSE calculate_trend(NumOf(c), NumOf(p))

\* src/src/tabs/overview.py 286-291
Trends(cur, prev) ==
    [hours_trend |-> TrendOfMetric(cur.total_hours, prev.total_hours),
     earnings_trend |-> TrendOfMetric(cur.total_earnings, prev.total_earnings),
     rate_trend |-> TrendOfMetric(cur.avg_hourly_rate, prev.avg_hourly_rate),
     tasks_trend |-> TrendOfMetric(cur.total_tasks, prev.total_tasks),
     daily_hours_trend |-> TrendOfMetric(cur.avg_daily_hours, prev.avg_daily_hours)]

KpiOf(cur, prev_window, prev) ==
    [name |-> "display_enhanced_kpi_metrics", raised |-> "none", current |-> cur,
     prev_window |-> prev_window, previous |-> prev, trends |-> Trends(cur, prev)]

\* display_enhanced_kpi_metrics(df, filtered_df) with the window of the
\* session state
display_enhanced_kpi_metrics(t, w) ==
    KpiOf(Metrics(FilterWindow(t, w).rows),
          previous_period(w, SeriesMin(Column(t, "workDate_dt")).val),
          Metrics(FilterWindow(t, previous_period(w, SeriesMin(Column(t, "workDate_dt")).val)).rows))

\* src/main.py 133-138
main_top_metrics(rows) ==
    [name |-> "main_top_metrics", raised |-> "none", current |-> Metrics(rows)]

----------------------------------------------------------------------------
(* SpecOverview: the overview of a normalized upload with a non-null date  *)
(* range, for windows of one day, of two days starting at the first date   *)
(* of the data, of seven and of eight days, and for end_date < start_date  *)

OverviewRawRows ==
    {RawRow(d, p, {}) : d \in {Str(Txt_Jan01), Str(Txt_Dec31), NaN},
                        p \in {PrepayTask, OvertimeTask, ZeroDurationTask}}

OverviewWindows ==
    {<<<<2024, 1, 1>>, <<2024, 1, 1>>>>, <<<<2023, 12, 31>>, <<2024, 1, 1>>>>,
     <<<<2023, 12, 31>>, <<2024, 1, 6>>>>, <<<<2023, 12, 31>>, <<2024, 1, 7>>>>,
     <<<<2024, 1, 1>>, <<2024, 1, 2>>>>, <<<<2024, 1, 1>>, <<2023, 12, 31>>>>}

OverviewInit ==
    /\ missing = {}
    /\ inferFormat \in BOOLEAN
    /\ \E rs \in RowLists(OverviewRawRows, MaxRows) :
         \E r \in {process_data(Uploaded([cols |-> RawColumns, rows |-> rs]), 1, inferFormat)} :
             /\ r.raised = "none"
             /\ \E g \in {get_date_range(r.heap[r.ref], inferFormat)} :
                    g.raised = "none" /\ ~IsNull(g.value[1])
             /\ heap = r.heap
             /\ arg = r.ref
             /\ ret = <<r.ref>>
             /\ shown = r.shown
    /\ raised = "none"
    /\ window \in OverviewWindows
    /\ search_term = <<>>
    /\ view = NoView
    /\ trendArgs = <<>>
    /\ pc = "filtered"
    /\ FieldsIdle

DisplayEnhancedKpiMetrics ==
    /\ pc = "filtered"
    /\ view' = display_enhanced_kpi_metrics(heap[arg], window)
    /\ pc' = "rendered"
    /\ UNCHANGED <<seconds, text, result, heap, missing, inferFormat, arg, ret, raised,
                   shown, window, search_term, trendArgs>>

MainTopMetrics ==
    /\ pc = "filtered"
    /\ view' = main_top_metrics(filtered_df.rows)
    /\ pc' = "rendered"
    /\ UNCHANGED <<seconds, text, result, heap, missing, inferFormat, arg, ret, raised,
                   shown, window, search_term, trendArgs>>

OverviewNext == CreateDailyData \/ DisplayEnhancedKpiMetrics \/ MainTopMetrics

SpecOverview == OverviewInit /\ [][OverviewNext]_vars

----------------------------------------------------------------------------
(* Claims about the overview *)

\* the mean of column c of the daily table over the days from..i
RECURSIVE TailSum(_, _, _, _)
TailSum(daily, c, from, i) ==
    IF from > i THEN Zero ELSE AddQ(daily[from][c].val, TailSum(daily, c, from + 1, i))
IsMeanOfLast7(daily, avg, c, i) ==
    /\ daily[i][avg].kind = "float"
    /\ LET from == IF i - 6 > 1 THEN i - 6 ELSE 1
       IN  MulQ(daily[i][avg].val, <<i - from + 1, 1>>) = TailSum(daily, c, from, i)

Averages == {<<"hours_7d_avg", "hours">>, <<"earnings_7d_avg", "payout_amount">>,
             <<"rate_7d_avg", "hourly_rate">>}

\* C25: in create_daily_data, when the window has at least 7 days the
\* 7-day average of day i (hours, earnings, hourly rate) is the mean of the
\* values of the days max(0, i-6) .. i, so it is defined for every day
\* including the first six; when the window has fewer than 7 days each
\* 7-day average equals that day's raw value.
C25_SevenDayAverage ==
    Rendered({"create_daily_data"}) =>
        \A i \in 1..Len(view.daily) : \A a \in Averages :
            IF Len(view.daily) >= 7
            THEN IsMeanOfLast7(view.daily, a[1], a[2], i)
            ELSE view.daily[i][a[1]] = view.daily[i][a[2]]

\* an eight-day window with hours on its first day: the averages of the
\* first and of the eighth day differ from the raw values
C25_Witness ==
    /\ Rendered({"create_daily_data"})
    /\ Len(view.daily) = 8
    /\ view.daily[1]["hours"].val[1] > 0
    /\ view.daily[2]["hours"].val[1] > 0
    /\ view.daily[2]["hours_7d_avg"] # view.daily[2]["hours"]
    /\ view.daily[8]["hours_7d_avg"] # view.daily[7]["hours_7d_avg"]

----------------------------------------------------------------------------
(* The quick presets of enhanced_date_selector (src/src/tabs/overview.py   *)
(* 30-111).  st.session_state holds start_date and end_date (window); a    *)
(* click reruns the script with that one button pressed.  The two date     *)
(* inputs that follow are taken to show, and to store back, the dates the  *)
(* session state holds.                                                    *)

\* "Last 7 Days", "Last 30 Days": end_date - timedelta(days=n - 1) .. end_date
LastDays_one_more(max_date, n) == <<DatePlus(max_date, -n), max_date>>
LastDays(max_date, n) == <<DatePlus(max_date, -(n - 1)), max_date>>

\* "This Month"
this_month(max_date) == <<<<max_date[1], max_date[2], 1>>, max_date>>

\* "Last Month" without the step to the year before
last_month_same_year(max_date) ==
    <<<<max_date[1], IF max_date[2] = 1 THEN 12 ELSE max_date[2] - 1, 1>>,
      <<max_date[1], IF max_date[2] = 1 THEN 12 ELSE max_date[2] - 1,
        DaysInMonth(max_date[1], IF max_date[2] = 1 THEN 12 ELSE max_date[2] - 1)>>>>

\* "Last Month": calendar.monthrange(year, month)[1] is the month's last day
MonthOf(year, month) == <<<<year, month, 1>>, <<year, month, DaysInMonth(year, month)>>>>
last_month(max_date) ==
    IF max_date[2] = 1 THEN MonthOf(max_date[1] - 1, 12)
    ELSE MonthOf(max_date[1], max_date[2] - 1)

Presets == {"Last 7 Days", "Last 30 Days", "This Month", "Last Month", "All Time"}

preset(name, min_date, max_date) ==
    CASE name = "Last 7 Days" -> LastDays(max_date, 7)
      [] name = "Last 30 Days" -> LastDays(max_date, 30)
      [] name = "This Month" -> this_month(max_date)
      [] name = "Last Month" -> last_month(max_date)
      [] name = "All Time" -> <<min_date, max_date>>

\* the latest dates of the sample data sets, and the lengths of their ranges
MaxDates ==
    {<<2024, 1, 15>>, <<2024, 3, 31>>, <<2024, 3, 1>>, <<2023, 12, 31>>, <<2024, 2, 29>>,
     <<2025, 1, 1>>}
Spans == {0, 3, 40}

\* lines 32-38: the first run stores the data range
PresetsInit ==
    /\ \E max_date \in MaxDates : \E k \in Spans :
           /\ view = [name |-> "enhanced_date_selector", min_date |-> DatePlus(max_date, -k),
                      max_date |-> max_date, clicked |-> "none", before |-> "none"]
           /\ window = <<DatePlus(max_date, -k), max_date>>
    /\ pc = "selector"
    /\ search_term = <<>>
    /\ trendArgs = <<>>
    /\ TableIdle
    /\ FieldsIdle

Click(name) ==
    /\ pc = "selector"
    /\ window' = preset(name, view.min_date, view.max_date)
    /\ view' = [view EXCEPT !.clicked = name, !.before = view.clicked]
    /\ UNCHANGED <<pc, seconds, text, result, heap, missing, inferFormat, arg, ret, raised,
                   shown, search_term, trendArgs>>

Last7Days == Click("Last 7 Days")
Last30Days == Click("Last 30 Days")
ThisMonth == Click("This Month")
LastMonth == Click("Last Month")
AllTime == Click("All Time")

PresetsNext == Last7Days \/ Last30Days \/ ThisMonth \/ LastMonth \/ AllTime

SpecPresets == PresetsInit /\ [][PresetsNext]_vars

InclusiveDays(w) == Ordinal(w[2]) - Ordinal(w[1]) + 1

----------------------------------------------------------------------------
(* Claims about the KPI metrics *)

Kpi == Rendered({"display_enhanced_kpi_metrics"})

\* C28: the previous period used for the KPI trends has the same number of
\* days as the current window and lies entirely before it: its end date is
\* strictly earlier than the current start_date, so no row is counted in
\* both periods, for every current window including one that starts at the
\* data's earliest date.
C28_PreviousPeriodBefore ==
    (Kpi /\ ValidWindow) =>
        /\ InclusiveDays(view.prev_window) = InclusiveDays(window)
        /\ Ordinal(view.prev_window[2]) < Ordinal(window[1])
        /\ \A i \in 1..Len(heap[arg].rows) :
               ~(InWindow(heap[arg].rows[i], window)
                 /\ InWindow(heap[arg].rows[i], view.prev_window))

\* the previous period does have the length of the window, and lies before
\* it whenever the data begin early enough
C28_PreviousPeriodLength ==
    (Kpi /\ ValidWindow) =>
        /\ InclusiveDays(view.prev_window) = InclusiveDays(window)
        /\ Ordinal(DatePlus(window[1], -InclusiveDays(window)))
              >= Ordinal(SeriesMin(Column(heap[arg], "workDate_dt")).val)
             => Ordinal(view.prev_window[2]) < Ordinal(window[1])

\* a window that starts at the earliest date of the data is its own
\* previous period
C28_SamePeriod ==
    /\ Kpi /\ ValidWindow
    /\ view.prev_window = window
    /\ view.current.total_hours.val[1] > 0
    /\ view.previous = view.current

\* the totals of the rows the date filter keeps
RECURSIVE TotalOf(_, _)
TotalOf(rows, c) ==
    IF rows = <<>> THEN Zero ELSE AddQ(NumOf(Head(rows)[c]), TotalOf(Tail(rows), c))
RECURSIVE DailyTotal(_, _)
DailyTotal(daily, c) ==
    IF daily = <<>> THEN Zero ELSE AddQ(Head(daily)[c].val, DailyTotal(Tail(daily), c))

\* C29: conservation of totals: for every window with start_date <=
\* end_date, the sum of duration_seconds over the rows of the gap-filled
\* daily table of create_daily_data equals the sum of duration_seconds over
\* the rows kept by the date filter, and the same holds for payout_amount.
C29_TotalsConserved ==
    (Rendered({"create_daily_data"}) /\ ValidWindow) =>
        \A c \in {"duration_seconds", "payout_amount"} :
            DailyTotal(view.daily, c) = TotalOf(KeptRows(heap[arg].rows, window), c)

\* two rows of one day and a day without rows, in a window of several days;
\* a row outside the window or without a date is not counted
C29_Witness ==
    /\ Rendered({"create_daily_data"})
    /\ InclusiveDays(window) = 2
    /\ Len(heap[arg].rows) = 2
    /\ Len(KeptRows(heap[arg].rows, window)) = 1
    /\ DailyTotal(view.daily, "payout_amount")[1] > 0
    /\ \E i \in 1..2 : view.daily[i]["payout_amount"] = FloatCell(Zero)

IsNumber(c) == c.kind \in {"int", "float"}

\* the quotient a / b if b > 0 and the integer 0 otherwise
IsGuardedQuotient(q, a, b) ==
    IF NumOf(b)[1] > 0
    THEN q.kind = "float" /\ MulQ(q.val, NumOf(b)) = NumOf(a)
    ELSE q = IntCell(0)

MetricsGuarded(m) ==
    /\ IsGuardedQuotient(m.avg_hourly_rate, m.total_earnings, m.total_hours)
    /\ IsGuardedQuotient(m.avg_daily_hours, m.total_hours, m.active_days)

\* C30: the overview metrics never divide by zero: average hourly rate is
\* total earnings / total hours when total hours > 0 and 0 otherwise,
\* average daily hours is total hours / active days when active days > 0 and
\* 0 otherwise (for the current and for the previous period), and the
\* per-day hourly rate of create_daily_data is 0 on every day with 0 hours.
C30_NoDivisionByZero ==
    /\ Kpi => MetricsGuarded(view.current) /\ MetricsGuarded(view.previous)
    /\ Rendered({"main_top_metrics"}) =>
           IsGuardedQuotient(view.current.avg_hourly_rate, view.current.total_earnings,
                             view.current.total_hours)
    /\ Rendered({"create_daily_data"}) =>
           \A i \in 1..Len(view.daily) :
               /\ IsNumber(view.daily[i]["hourly_rate"])
               /\ view.daily[i]["hours"].val[1] = 0 =>
                      view.daily[i]["hourly_rate"] = FloatCell(Zero)

\* earnings without hours in the current period
C30_Witness ==
    /\ Kpi
    /\ view.current.total_earnings.val[1] > 0
    /\ view.current.total_hours.val[1] = 0
    /\ view.current.active_days.val[1] > 0
    /\ view.current.avg_hourly_rate = IntCell(0)
    /\ view.current.avg_daily_hours = FloatCell(Zero)

\* a period without rows
C30_NoActiveDays ==
    /\ Kpi
    /\ view.current.active_days = IntCell(0)
    /\ view.current.avg_daily_hours = IntCell(0)
    /\ view.previous.active_days.val[1] > 0

=============================================================================
